---- MODULE Spec2Model ----
(***************************************************************************)
(* A model of the Koi interpreter (src/src/interp/mod.rs), of the command  *)
(* parser (src/src/parser/cmd.rs) and of Func equality                     *)
(* (src/src/interp/func.rs).                                               *)
(*                                                                         *)
(* Strings are sequences of one-character strings, so that concatenation   *)
(* and prefixes are ordinary sequence operations.  A Num is an f64 kept as *)
(* its floor n and a flag half that adds 0.5: the model's numbers are the  *)
(* multiples of one half.                                                  *)
(***************************************************************************)
EXTENDS Integers, Sequences, FiniteSets, TLC

VARIABLES
    stack,      \* Interpreter.stack: the frames, innermost last
    heap,       \* the Rc<RefCell<..>> cells of Vec and Dict values
    collector,  \* Interpreter.collector: Option<String>
    ctl,        \* the pending run_stmt activations, innermost last
    cur,        \* what the innermost activation does next
    status,     \* "running", or "panicked" once the process has aborted
    nrun,       \* number of top-level statements run has taken from prog
    evals,      \* the expressions eval was entered with in the last step
    done,       \* the statement whose arm ran in the last step
    toks,       \* parser: the lexer's token stream
    pos,        \* parser: number of tokens consumed
    tree,       \* parser: the Cmd returned by parse_cmd(0)
    fa, fb,     \* Func equality: the two operands
    feq         \* Func equality: the result of fa == fb

vars == <<stack, heap, collector, ctl, cur, status, nrun, evals, done,
          toks, pos, tree, fa, fb, feq>>

interpVars == <<stack, heap, collector, ctl, cur, status, nrun, evals, done>>
parserVars == <<toks, pos, tree>>
funcVars == <<fa, fb, feq>>

---------------------------------------------------------------------------
(* Bounds *)

MaxStmts == 2
MaxHeap == 2

---------------------------------------------------------------------------
(* Value: src/src/interp/mod.rs:412-425 *)

Nil == [t |-> "Nil"]
Bool(b) == [t |-> "Bool", b |-> b]
NumH(n, half) == [t |-> "Num", n |-> n, half |-> half]
Num(n) == NumH(n, FALSE)
String(s) == [t |-> "String", s |-> s]
VecRef(r) == [t |-> "Vec", ref |-> r]
DictRef(r) == [t |-> "Dict", ref |-> r]
Range(l, r) == [t |-> "Range", l |-> l, r |-> r]
\* Func::User { name, params, .. }: named is name.is_some(), name is the
\* String of Some(name) and <<>> for None
FuncUser(named, name, params) ==
    [t |-> "Func", k |-> "User", named |-> named, name |-> name, params |-> params]
FuncNative(name) ==
    [t |-> "Func", k |-> "Native", named |-> TRUE, name |-> name, params |-> <<>>]

\* a truthiness for which the Num 0 and the empty String are false as well
IsTruthyZeroFalse(v) ==
    CASE v.t = "Nil" -> FALSE
      [] v.t = "Bool" /\ v.b = FALSE -> FALSE
      [] v.t = "Num" /\ v.n = 0 /\ ~v.half -> FALSE
      [] v.t = "String" /\ v.s = <<>> -> FALSE
      [] OTHER -> TRUE

\* Value::is_truthy, lines 449-455
is_truthy(v) ==
    CASE v.t = "Nil" -> FALSE
      [] v.t = "Bool" /\ v.b = FALSE -> FALSE
      [] OTHER -> TRUE

\* num.trunc() == num
IsInteger(v) == v.t = "Num" /\ ~v.half

\* `num as usize` for a num with trunc() == num: the cast saturates, so a
\* negative number becomes 0 (the upper limit 2^64-1 is beyond the model's
\* numbers).
AsUsize(v) == IF v.n < 0 THEN 0 ELSE v.n

I32Min == -2147483647 - 1
I32Max == 2147483647

\* `num as i32` for a num with trunc() == num: saturating.  The numbers of
\* the model are the integers of TLC, which are the i32, so that no number
\* of the model is beyond a limit.
AsI32(v) ==
    IF v.n < I32Min THEN I32Min ELSE IF v.n > I32Max THEN I32Max ELSE v.n

NumSum(a, b) ==
    IF a.half /\ b.half THEN NumH(a.n + b.n + 1, FALSE)
    ELSE NumH(a.n + b.n, a.half \/ b.half)

NumNeg(a) == IF a.half THEN NumH(-a.n - 1, TRUE) ELSE NumH(-a.n, FALSE)

NumSub(a, b) == NumSum(a, NumNeg(b))

NumLess(a, b) == a.n < b.n \/ (a.n = b.n /\ ~a.half /\ b.half)

\* impl PartialEq for Func, src/src/interp/mod.rs:403-410 and
\* src/src/interp/func.rs:41-49: `name == name_other` compares the two
\* Option<String>, and None == None holds.  named is name.is_some().
FuncEq(f, g) ==
    CASE f.k = "User" /\ g.k = "User" ->
            (f.named = g.named) /\ (f.named => f.name = g.name)
      [] OTHER -> FALSE

---------------------------------------------------------------------------
(* Stack: src/src/interp/stack.rs is not part of the sources; push, pop,   *)
(* def, get and get_mut follow the Environment Stack section of the        *)
(* specification.  A frame maps every name of Names to a binding or to     *)
(* Unbound.                                                                *)

Names == {"print", "HOME", "a", "b", "d", "i", "v"}

Unbound == [bound |-> FALSE]
Var(val, is_exp) == [bound |-> TRUE, val |-> val, is_exp |-> is_exp]
EmptyFrame == [n \in Names |-> Unbound]

StackPush(s) == Append(s, EmptyFrame)
StackPop(s) == SubSeq(s, 1, Len(s) - 1)
StackDef(s, name, var) == [s EXCEPT ![Len(s)][name] = var]

\* the innermost frame that binds name, 0 when no frame does
StackFind(s, name) ==
    LET fs == {k \in 1..Len(s) : s[k][name].bound}
    IN IF fs = {} THEN 0 ELSE CHOOSE k \in fs : \A j \in fs : j <= k

StackHas(s, name) == name \in Names /\ StackFind(s, name) # 0
StackGet(s, name) == s[StackFind(s, name)][name].val
\* *stack.get_mut(name) = val
StackAssign(s, name, val) == [s EXCEPT ![StackFind(s, name)][name].val = val]

---------------------------------------------------------------------------
(* The cells behind Vec(Rc<RefCell<Vec<Value>>>) and                       *)
(* Dict(Rc<RefCell<HashMap<String, Value>>>).  borrow counts the shared    *)
(* borrows (Ref) that are alive; a RefMut lives only inside SetField.      *)

EmptyMap == [k \in {} |-> Nil]
VecCell(elems) == [kind |-> "Vec", elems |-> elems, borrow |-> 0]
DictCell(map) == [kind |-> "Dict", map |-> map, borrow |-> 0]

\* an insert that keeps the value of a key that is present
MapInsertIfAbsent(map, k, v) ==
    [x \in DOMAIN map \cup {k} |-> IF x \in DOMAIN map THEN map[x] ELSE v]

\* HashMap::insert
MapInsert(map, k, v) == [x \in DOMAIN map \cup {k} |-> IF x = k THEN v ELSE map[x]]

RECURSIVE SetToSeq(_)
SetToSeq(S) ==
    IF S = {} THEN <<>>
    ELSE LET x == CHOOSE y \in S : TRUE IN <<x>> \o SetToSeq(S \ {x})

InSeq(x, sq) == \E k \in 1..Len(sq) : sq[k] = x

\* HashMap::iter(): the keys of map in the order the hasher gives them, ord
KeysInOrder(map, ord) ==
    LET known == SelectSeq(ord, LAMBDA k : k \in DOMAIN map)
    IN known \o SetToSeq({k \in DOMAIN map : ~InSeq(k, ord)})

---------------------------------------------------------------------------
(* impl Display for Value and to_string_quoted,                            *)
(* src/src/interp/mod.rs:427-463.  A container that contains itself makes  *)
(* the recursion of fmt unbounded and the process dies of stack overflow:  *)
(* ok is FALSE then.                                                       *)

Digit(d) == <<"0", "1", "2", "3", "4", "5", "6", "7", "8", "9">>[d + 1]

RECURSIVE Digits(_)
Digits(n) == IF n < 10 THEN <<Digit(n)>> ELSE Digits(n \div 10) \o <<Digit(n % 10)>>

NumToString(v) ==
    IF ~v.half THEN (IF v.n < 0 THEN <<"-">> \o Digits(-v.n) ELSE Digits(v.n))
    ELSE IF v.n < 0 THEN <<"-">> \o Digits(-v.n - 1) \o <<".", "5">>
    ELSE Digits(v.n) \o <<".", "5">>

FuncDebug(f) ==
    IF f.k = "User"
    THEN IF f.named THEN <<"<", "f", "u", "n", "c", " ">> \o f.name \o <<">">>
         ELSE <<"<", "l", "a", "m", "b", "d", "a", " ", "f", "u", "n", "c", ">">>
    ELSE <<"<", "n", "a", "t", "i", "v", "e", " ", "f", "u", "n", "c", " ">>
             \o f.name \o <<">">>

RECURSIVE to_string(_, _, _, _)
RECURSIVE JoinQuoted(_, _, _, _)
RECURSIVE JoinEntries(_, _, _, _, _)

to_string_quoted(v, h, ord, fuel) ==
    LET r == to_string(v, h, ord, fuel)
    IN IF v.t = "String" THEN [ok |-> r.ok, s |-> <<"'">> \o r.s \o <<"'">>] ELSE r

JoinQuoted(elems, h, ord, fuel) ==
    IF elems = <<>> THEN [ok |-> TRUE, s |-> <<>>]
    ELSE LET first == to_string_quoted(Head(elems), h, ord, fuel)
             rest == JoinQuoted(Tail(elems), h, ord, fuel)
         IN [ok |-> first.ok /\ rest.ok,
             s |-> IF Len(elems) = 1 THEN first.s
                   ELSE first.s \o <<",", " ">> \o rest.s]

JoinEntries(keys, map, h, ord, fuel) ==
    IF keys = <<>> THEN [ok |-> TRUE, s |-> <<>>]
    ELSE LET first == to_string_quoted(map[Head(keys)], h, ord, fuel)
             entry == Head(keys) \o <<":", " ">> \o first.s
             rest == JoinEntries(Tail(keys), map, h, ord, fuel)
         IN [ok |-> first.ok /\ rest.ok,
             s |-> IF Len(keys) = 1 THEN entry
                   ELSE entry \o <<",", " ">> \o rest.s]

to_string(v, h, ord, fuel) ==
    CASE v.t = "Nil" -> [ok |-> TRUE, s |-> <<"n", "i", "l">>]
      [] v.t = "Num" -> [ok |-> TRUE, s |-> NumToString(v)]
      [] v.t = "String" -> [ok |-> TRUE, s |-> v.s]
      [] v.t = "Bool" ->
            [ok |-> TRUE,
             s |-> IF v.b THEN <<"t", "r", "u", "e">> ELSE <<"f", "a", "l", "s", "e">>]
      [] v.t = "Vec" ->
            IF fuel = 0 THEN [ok |-> FALSE, s |-> <<>>]
            ELSE LET r == JoinQuoted(h[v.ref].elems, h, ord, fuel - 1)
                 IN [ok |-> r.ok, s |-> <<"[">> \o r.s \o <<"]">>]
      [] v.t = "Dict" ->
            IF fuel = 0 THEN [ok |-> FALSE, s |-> <<>>]
            ELSE LET m == h[v.ref].map
                     r == JoinEntries(KeysInOrder(m, ord), m, h, ord, fuel - 1)
                 IN [ok |-> r.ok, s |-> <<"{">> \o r.s \o <<"}">>]
      [] v.t = "Func" -> [ok |-> TRUE, s |-> FuncDebug(v)]
      [] v.t = "Range" ->
            [ok |-> TRUE, s |-> NumToString(Num(v.l)) \o <<".", ".">> \o NumToString(Num(v.r))]

\* args.iter().map(|arg| arg.to_string()).join(" ")
RECURSIVE JoinArgs(_, _, _)
JoinArgs(args, h, ord) ==
    IF args = <<>> THEN [ok |-> TRUE, s |-> <<>>]
    ELSE LET first == to_string(Head(args), h, ord, Len(h) + 1)
             rest == JoinArgs(Tail(args), h, ord)
         IN [ok |-> first.ok /\ rest.ok,
             s |-> IF Len(args) = 1 THEN first.s ELSE first.s \o <<" ">> \o rest.s]

---------------------------------------------------------------------------
(* #[derive(PartialEq)] for Value, src/src/interp/mod.rs:412: equal        *)
(* variants with equal payloads; Rc and RefCell compare what they hold.    *)

RECURSIVE ValueEq(_, _, _, _)
ValueEq(a, b, h, fuel) ==
    IF a.t # b.t THEN [ok |-> TRUE, eq |-> FALSE]
    ELSE CASE a.t = "Nil" -> [ok |-> TRUE, eq |-> TRUE]
           [] a.t = "Num" -> [ok |-> TRUE, eq |-> a.n = b.n /\ a.half = b.half]
           [] a.t = "String" -> [ok |-> TRUE, eq |-> a.s = b.s]
           [] a.t = "Bool" -> [ok |-> TRUE, eq |-> a.b = b.b]
           [] a.t = "Range" -> [ok |-> TRUE, eq |-> a.l = b.l /\ a.r = b.r]
           [] a.t = "Func" -> [ok |-> TRUE, eq |-> FuncEq(a, b)]
           [] a.t = "Vec" ->
                IF fuel = 0 THEN [ok |-> FALSE, eq |-> FALSE]
                ELSE LET x == h[a.ref].elems
                         y == h[b.ref].elems
                         rs == [k \in 1..Len(x) |->
                                   IF k <= Len(y) THEN ValueEq(x[k], y[k], h, fuel - 1)
                                   ELSE [ok |-> TRUE, eq |-> FALSE]]
                     IN IF Len(x) # Len(y) THEN [ok |-> TRUE, eq |-> FALSE]
                        ELSE [ok |-> \A k \in 1..Len(x) : rs[k].ok,
                              eq |-> \A k \in 1..Len(x) : rs[k].eq]
           [] a.t = "Dict" ->
                IF fuel = 0 THEN [ok |-> FALSE, eq |-> FALSE]
                ELSE LET x == h[a.ref].map
                         y == h[b.ref].map
                     IN IF DOMAIN x # DOMAIN y THEN [ok |-> TRUE, eq |-> FALSE]
                        ELSE [ok |-> \A k \in DOMAIN x :
                                        ValueEq(x[k], y[k], h, fuel - 1).ok,
                              eq |-> \A k \in DOMAIN x :
                                        ValueEq(x[k], y[k], h, fuel - 1).eq]

---------------------------------------------------------------------------
(* Expr.  Literal(value), Vec(items), Dict(entries), Cmd(cmd), Get(name),  *)
(* GetField(base, index), Set(name, expr), SetField(base, index, expr),    *)
(* Range(l, r, inclusive), Binary(lhs, op, rhs), Unary(op, expr),          *)
(* Interp(strings, exprs), Call(func, args), Lambda.                       *)

Literal(v) == [e |-> "Literal", value |-> v]
VecE(items) == [e |-> "Vec", items |-> items]
DictE(entries) == [e |-> "Dict", entries |-> entries]
CmdE(cmd) == [e |-> "Cmd", cmd |-> cmd]
Get(name) == [e |-> "Get", name |-> name]
GetField(base, index) == [e |-> "GetField", base |-> base, index |-> index]
Set(name, expr) == [e |-> "Set", name |-> name, expr |-> expr]
SetField(base, index, expr) ==
    [e |-> "SetField", base |-> base, index |-> index, expr |-> expr]
RangeE(l, r, inclusive) == [e |-> "Range", l |-> l, r |-> r, inclusive |-> inclusive]
Binary(lhs, op, rhs) == [e |-> "Binary", lhs |-> lhs, op |-> op, rhs |-> rhs]
Unary(op, expr) == [e |-> "Unary", op |-> op, expr |-> expr]
Call(func, args) == [e |-> "Call", func |-> func, args |-> args]
Interp(strings, exprs) == [e |-> "Interp", strings |-> strings, exprs |-> exprs]
Lambda == [e |-> "Lambda"]

---------------------------------------------------------------------------
(* Interpreter::eval, src/src/interp/mod.rs:210-375.  st is the part of    *)
(* the interpreter an expression can change: stack, heap, collector, the   *)
(* log evals of the expressions eval was entered with, and ok, FALSE once  *)
(* a panic has ended the process.  orc holds what the outside world        *)
(* decides during the step: out, the output of a captured command, and     *)
(* ord, the iteration order of the HashMaps.                               *)

Ret(v, st) == [v |-> v, st |-> st]
Panic(st) == [v |-> Nil, st |-> [st EXCEPT !.ok = FALSE]]

\* a print that overwrites what was captured
PrintOverwrites(st, args, orc) ==
    LET res == JoinArgs(args, st.heap, orc.ord)
    IN IF ~res.ok THEN Panic(st)
       ELSE IF st.collector.some
       THEN Ret(Nil, [st EXCEPT !.collector.buf = res.s \o <<"\n">>])
       ELSE Ret(Nil, st)

\* print, src/src/interp/mod.rs:29-40
print(st, args, orc) ==
    LET res == JoinArgs(args, st.heap, orc.ord)
    IN IF ~res.ok THEN Panic(st)
       ELSE IF st.collector.some
       THEN Ret(Nil, [st EXCEPT !.collector.buf = @ \o res.s \o <<"\n">>])
       ELSE Ret(Nil, st)

\* a Get that gives a Vec a cell of its own
GetOfCopies(name, st) ==
    IF ~StackHas(st.stack, name) THEN Panic(st)
    ELSE LET v == StackGet(st.stack, name)
         IN IF v.t = "Vec"
            THEN Ret(VecRef(Len(st.heap) + 1),
                     [st EXCEPT !.heap = Append(@, VecCell(st.heap[v.ref].elems))])
            ELSE Ret(v, st)

\* Expr::Get, line 224: the clone of a Vec or Dict is another Rc of the same
\* cell; get panics on a name no frame binds
GetOf(name, st) ==
    IF StackHas(st.stack, name) THEN Ret(StackGet(st.stack, name), st)
    ELSE Panic(st)

\* an And/Or that evaluates its right operand whatever the left one is
EvalsRhsAlways(op, lhs) == TRUE

\* an And/Or that never evaluates its right operand
EvalsRhsNever(op, lhs) == FALSE

\* BinaryOp::And and BinaryOp::Or, lines 335 and 343: whether the right
\* operand is evaluated, given the value of the left one
EvalsRhs(op, lhs) == IF op = "And" THEN is_truthy(lhs) ELSE ~is_truthy(lhs)

\* Expr::GetField after base and index are evaluated, lines 229-247
GetFieldOf(base, index, st) ==
    CASE base.t = "Vec" ->
            IF ~IsInteger(index) THEN Panic(st)
            ELSE LET elems == st.heap[base.ref].elems
                     i == AsUsize(index)
                 IN IF i >= Len(elems) THEN Panic(st) ELSE Ret(elems[i + 1], st)
      [] base.t = "Dict" ->
            IF index.t # "String" THEN Panic(st)
            ELSE LET map == st.heap[base.ref].map
                 IN IF index.s \in DOMAIN map THEN Ret(map[index.s], st) ELSE Panic(st)
      [] OTHER -> Panic(st)

\* a SetField whose borrow_mut() succeeds whatever Refs are alive
SetFieldOfUnchecked(base, index, value, st) ==
    CASE base.t = "Vec" ->
            IF ~IsInteger(index) THEN Panic(st)
            ELSE LET cell == st.heap[base.ref]
                     i == AsUsize(index)
                 IN IF i >= Len(cell.elems) THEN Panic(st)
                    ELSE Ret(value, [st EXCEPT !.heap[base.ref].elems[i + 1] = value])
      [] base.t = "Dict" ->
            IF index.t # "String" THEN Panic(st)
            ELSE Ret(value, [st EXCEPT !.heap[base.ref].map =
                                           MapInsert(@, index.s, value)])
      [] OTHER -> Panic(st)

\* Expr::SetField after base, index and expr are evaluated, lines 259-279;
\* borrow_mut() panics while a Ref of the cell is alive.
SetFieldOf(base, index, value, st) ==
    CASE base.t = "Vec" ->
            IF ~IsInteger(index) THEN Panic(st)
            ELSE LET cell == st.heap[base.ref]
                     i == AsUsize(index)
                 IN IF cell.borrow > 0 \/ i >= Len(cell.elems) THEN Panic(st)
                    ELSE Ret(value, [st EXCEPT !.heap[base.ref].elems[i + 1] = value])
      [] base.t = "Dict" ->
            IF index.t # "String" THEN Panic(st)
            ELSE LET cell == st.heap[base.ref]
                 IN IF cell.borrow > 0 THEN Panic(st)
                    ELSE Ret(value, [st EXCEPT !.heap[base.ref].map =
                                                   MapInsert(@, index.s, value)])
      [] OTHER -> Panic(st)

RECURSIVE Eval(_, _, _)
RECURSIVE EvalAll(_, _, _)
RECURSIVE EvalEntries(_, _, _, _)
RECURSIVE EvalInterp(_, _, _, _, _)

\* the expressions of a Vec or of a Call's args, left to right
EvalAll(exprs, st, orc) ==
    IF exprs = <<>> THEN [vs |-> <<>>, st |-> st]
    ELSE LET first == Eval(Head(exprs), st, orc)
             rest == EvalAll(Tail(exprs), first.st, orc)
         IN [vs |-> <<first.v>> \o rest.vs, st |-> rest.st]

\* the (key, expr) pairs of a Dict, collected into a HashMap
EvalEntries(entries, map, st, orc) ==
    IF entries = <<>> THEN [map |-> map, st |-> st]
    ELSE LET first == Eval(Head(entries).expr, st, orc)
         IN EvalEntries(Tail(entries), MapInsert(map, Head(entries).key, first.v),
                        first.st, orc)

\* an interpolation that appends the fragment before the text of the
\* expression in front of it
RECURSIVE EvalInterpFragmentFirst(_, _, _, _, _)
EvalInterpFragmentFirst(exprs, strings, out, st, orc) ==
    IF exprs = <<>> THEN Ret(String(out), st)
    ELSE LET v == Eval(Head(exprs), st, orc)
             str == to_string(v.v, v.st.heap, orc.ord, Len(v.st.heap) + 1)
         IN IF ~v.st.ok THEN Ret(Nil, v.st)
            ELSE IF ~str.ok \/ strings = <<>> THEN Panic(v.st)
            ELSE EvalInterpFragmentFirst(Tail(exprs), Tail(strings),
                                         out \o Head(strings) \o str.s, v.st, orc)

\* the loop of Expr::Interp, lines 286-290; strings.remove(0) panics on an
\* empty Vec
EvalInterp(exprs, strings, out, st, orc) ==
    IF exprs = <<>> THEN Ret(String(out), st)
    ELSE LET v == Eval(Head(exprs), st, orc)
             str == to_string(v.v, v.st.heap, orc.ord, Len(v.st.heap) + 1)
         IN IF ~v.st.ok THEN Ret(Nil, v.st)
            ELSE IF ~str.ok \/ strings = <<>> THEN Panic(v.st)
            ELSE EvalInterp(Tail(exprs), Tail(strings),
                            out \o str.s \o Head(strings), v.st, orc)

Eval(expr, st0, orc) ==
    IF ~st0.ok THEN Ret(Nil, st0)
    ELSE
    LET st == [st0 EXCEPT !.evals = Append(@, expr)] IN
    CASE expr.e = "Literal" -> Ret(expr.value, st)
      [] expr.e = "Vec" ->
            LET r == EvalAll(expr.items, st, orc)
            IN IF ~r.st.ok THEN Ret(Nil, r.st)
               ELSE Ret(VecRef(Len(r.st.heap) + 1),
                        [r.st EXCEPT !.heap = Append(@, VecCell(r.vs))])
      [] expr.e = "Dict" ->
            LET r == EvalEntries(expr.entries, EmptyMap, st, orc)
            IN IF ~r.st.ok THEN Ret(Nil, r.st)
               ELSE Ret(DictRef(Len(r.st.heap) + 1),
                        [r.st EXCEPT !.heap = Append(@, DictCell(r.map))])
      [] expr.e = "Cmd" -> Ret(String(orc.out), st)
      [] expr.e = "Get" -> GetOf(expr.name, st)
      [] expr.e = "GetField" ->
            LET base == Eval(expr.base, st, orc)
                index == Eval(expr.index, base.st, orc)
            IN IF ~index.st.ok THEN Ret(Nil, index.st)
               ELSE GetFieldOf(base.v, index.v, index.st)
      [] expr.e = "Set" ->
            LET value == Eval(expr.expr, st, orc)
            IN IF ~value.st.ok THEN Ret(Nil, value.st)
               ELSE IF ~StackHas(value.st.stack, expr.name) THEN Panic(value.st)
               ELSE Ret(value.v, [value.st EXCEPT !.stack =
                                     StackAssign(@, expr.name, value.v)])
      [] expr.e = "SetField" ->
            LET base == Eval(expr.base, st, orc)
                index == Eval(expr.index, base.st, orc)
                value == Eval(expr.expr, index.st, orc)
            IN IF ~value.st.ok THEN Ret(Nil, value.st)
               ELSE SetFieldOf(base.v, index.v, value.v, value.st)
      [] expr.e = "Interp" ->
            IF expr.strings = <<>> THEN Panic(st)
            ELSE EvalInterp(expr.exprs, Tail(expr.strings), Head(expr.strings), st, orc)
      [] expr.e = "Range" ->
            LET l == Eval(expr.l, st, orc)
                r == Eval(expr.r, l.st, orc)
            IN IF ~r.st.ok THEN Ret(Nil, r.st)
               ELSE IF IsInteger(l.v) /\ IsInteger(r.v)
               THEN \* r as i32 + 1 overflows for r = i32::MAX: the sum wraps
                    \* around to i32::MIN, or the overflow check panics
                    IF ~expr.inclusive THEN Ret(Range(AsI32(l.v), AsI32(r.v)), r.st)
                    ELSE IF AsI32(r.v) < I32Max
                    THEN Ret(Range(AsI32(l.v), AsI32(r.v) + 1), r.st)
                    ELSE IF orc.wrap THEN Ret(Range(AsI32(l.v), I32Min), r.st)
                    ELSE Panic(r.st)
               ELSE Panic(r.st)
      [] expr.e = "Binary" /\ expr.op = "Sum" ->
            LET lhs == Eval(expr.lhs, st, orc)
                rhs == Eval(expr.rhs, lhs.st, orc)
            IN IF ~rhs.st.ok THEN Ret(Nil, rhs.st)
               ELSE IF lhs.v.t = "Num" /\ rhs.v.t = "Num"
               THEN Ret(NumSum(lhs.v, rhs.v), rhs.st)
               ELSE IF lhs.v.t = "String" /\ rhs.v.t = "String"
               THEN Ret(String(lhs.v.s \o rhs.v.s), rhs.st)
               ELSE Panic(rhs.st)
      [] expr.e = "Binary" /\ expr.op \in {"Sub", "Less", "Great"} ->
            LET lhs == Eval(expr.lhs, st, orc)
                rhs == Eval(expr.rhs, lhs.st, orc)
            IN IF ~rhs.st.ok THEN Ret(Nil, rhs.st)
               ELSE IF lhs.v.t = "Num" /\ rhs.v.t = "Num"
               THEN Ret(CASE expr.op = "Sub" -> NumSub(lhs.v, rhs.v)
                          [] expr.op = "Less" -> Bool(NumLess(lhs.v, rhs.v))
                          [] expr.op = "Great" -> Bool(NumLess(rhs.v, lhs.v)),
                        rhs.st)
               ELSE Panic(rhs.st)
      [] expr.e = "Binary" /\ expr.op \in {"And", "Or"} ->
            LET lhs == Eval(expr.lhs, st, orc)
            IN IF ~lhs.st.ok THEN Ret(Nil, lhs.st)
               ELSE IF EvalsRhs(expr.op, lhs.v) THEN Eval(expr.rhs, lhs.st, orc)
               ELSE lhs
      [] expr.e = "Binary" /\ expr.op = "Equal" ->
            LET lhs == Eval(expr.lhs, st, orc)
                rhs == Eval(expr.rhs, lhs.st, orc)
            IN IF ~rhs.st.ok THEN Ret(Nil, rhs.st)
               ELSE LET r == ValueEq(lhs.v, rhs.v, rhs.st.heap, Len(rhs.st.heap) + 1)
                    IN IF r.ok THEN Ret(Bool(r.eq), rhs.st) ELSE Panic(rhs.st)
      [] expr.e = "Unary" /\ expr.op = "Not" ->
            LET v == Eval(expr.expr, st, orc)
            IN IF ~v.st.ok THEN Ret(Nil, v.st) ELSE Ret(Bool(~is_truthy(v.v)), v.st)
      [] expr.e = "Unary" /\ expr.op = "Neg" ->
            LET v == Eval(expr.expr, st, orc)
            IN IF ~v.st.ok THEN Ret(Nil, v.st)
               ELSE IF v.v.t = "Num" THEN Ret(NumNeg(v.v), v.st)
               ELSE Panic(v.st)
      [] expr.e = "Call" ->
            LET func == Eval(expr.func, st, orc)
                args == EvalAll(expr.args, func.st, orc)
            IN IF ~args.st.ok THEN Ret(Nil, args.st)
               ELSE IF func.v.t = "Func" /\ func.v.k = "Native"
               THEN print(args.st, args.vs, orc)
               ELSE Panic(args.st)
      [] OTHER -> Panic(st)

---------------------------------------------------------------------------
(* Stmt, as run_stmt matches it (src/src/interp/mod.rs:84-206).  An        *)
(* Option is [some |-> FALSE] or [some |-> TRUE, v |-> ..].                *)

None == [some |-> FALSE]
Some(v) == [some |-> TRUE, v |-> v]

CmdS(cmd) == [s |-> "Cmd", cmd |-> cmd]
Let(name, init, is_exp) == [s |-> "Let", name |-> name, init |-> init, is_exp |-> is_exp]
ExprS(expr) == [s |-> "Expr", expr |-> expr]
Block(stmts) == [s |-> "Block", stmts |-> stmts]
For(lvar, rvar, iterated, each_do) ==
    [s |-> "For", lvar |-> lvar, rvar |-> rvar, iterated |-> iterated, each_do |-> each_do]
While(cond, then_do) == [s |-> "While", cond |-> cond, then_do |-> then_do]
If(cond, then_do, else_do) ==
    [s |-> "If", cond |-> cond, then_do |-> then_do, else_do |-> else_do]
Continue == [s |-> "Continue"]
Break == [s |-> "Break"]
\* a statement of another kind (a return, a function declaration)
Other == [s |-> "Other"]

---------------------------------------------------------------------------
(* The interpreter as a state machine.  ctl holds one frame for every      *)
(* activation of run_stmt that waits for a nested run_stmt: a Block with   *)
(* the children it has still to run, a For with the position of its        *)
(* iterator, a While.  An If adds no frame: it hands the result of its     *)
(* branch on unchanged.  depth is the number of stack frames there were    *)
(* when the statement was entered.  cur is Exec(stmt) when run_stmt is     *)
(* about to be entered with stmt, Iterate when the innermost Block or loop *)
(* is about to take its next child or iteration, Result(res) when the      *)
(* innermost run_stmt has returned res ("Ok", or the Escape "Break",       *)
(* "Continue" or "Return").  A Result also records loops, the number of    *)
(* For and While activations there were when a Break or Continue was       *)
(* raised; the code keeps no such number.  The frame of a For also records *)
(* iterated, the expression the loop iterates over, entry, the content of  *)
(* the iterated container when the loop was entered, and seen, the values  *)
(* its variables have been bound to so far.  done names what the last step *)
(* did.                                                                    *)

Exec(stmt) == [op |-> "exec", stmt |-> stmt]
Iterate == [op |-> "next"]
Result(res) == [op |-> "ret", res |-> res, loops |-> 0]
\* no call of run is in progress
Idle == [op |-> "idle"]

Top == ctl[Len(ctl)]
Pop(sq) == SubSeq(sq, 1, Len(sq) - 1)

State == [stack |-> stack, heap |-> heap, collector |-> collector,
          evals |-> <<>>, ok |-> TRUE]

Event(act, stmt, depth) == [act |-> act, stmt |-> stmt, depth |-> depth]

NoStmt == [s |-> "None"]

\* a Cmd statement has called the process launcher: act is the operation
\* called, out the String that run_cmd_capture returned
Launched(act, stmt, depth, out) ==
    [act |-> act, stmt |-> stmt, depth |-> depth, out |-> out]

MaxBuf == 4

\* the part of the outside world a step may depend on
Outputs == {<<"o">>, <<>>}
KeyOrders == {<<<<"k">>, <<"j">>>>, <<<<"j">>, <<"k">>>>}
\* wrap: whether the build wraps on integer overflow (release) or panics
\* (overflow checks, debug)
Oracles == [out : Outputs, ord : KeyOrders, wrap : BOOLEAN]

Bounded(st) ==
    /\ Len(st.heap) <= MaxHeap
    /\ Len(st.collector.buf) <= MaxBuf

Commit(st) ==
    /\ stack' = st.stack
    /\ heap' = st.heap
    /\ collector' = st.collector
    /\ evals' = st.evals

\* a panic unwinds out of run and ends the process
Crash(st, stmt) ==
    /\ Commit(st)
    /\ status' = "panicked"
    /\ done' = Event("panic", stmt, Len(stack))
    /\ UNCHANGED <<ctl, cur, nrun>>

Executing(kind) == status = "running" /\ cur.op = "exec" /\ cur.stmt.s = kind
Returned(kind) ==
    status = "running" /\ ctl # <<>> /\ Top.k = kind /\ cur.op = "ret"
Iterating(kind) ==
    status = "running" /\ ctl # <<>> /\ Top.k = kind /\ cur.op = "next"

\* the number of loops among the activations
NumLoops(c) == Cardinality({k \in 1..Len(c) : c[k].k \in {"For", "While"}})

Raised(res) == [op |-> "ret", res |-> res, loops |-> NumLoops(ctl)]

Release(h, ref) == IF ref = 0 THEN h ELSE [h EXCEPT ![ref].borrow = @ - 1]

MaxStack == 4

---------------------------------------------------------------------------
(* Interpreter::run, lines 60-64: takes the next statement of prog, and    *)
(* panics ("escape bubbled up to top level") when run_stmt returned an     *)
(* Escape.  The statements of prog are drawn one at a time from TopStmts;  *)
(* prog has at most max statements and may end after any of them.          *)

run_call ==
    /\ status = "running" /\ cur = Idle
    /\ cur' = Result("Ok")
    /\ done' = Event("run.call", NoStmt, Len(stack))
    /\ evals' = <<>>
    /\ UNCHANGED <<stack, heap, collector, ctl, status, nrun>>
    /\ UNCHANGED <<parserVars, funcVars>>

run(TopStmts, max) ==
    /\ status = "running" /\ ctl = <<>> /\ cur.op = "ret"
    /\ IF cur.res = "Ok"
       THEN /\ nrun < max
            /\ \E stmt \in TopStmts :
                  /\ cur' = Exec(stmt)
                  /\ done' = Event("run", stmt, Len(stack))
            /\ nrun' = nrun + 1
            /\ evals' = <<>>
            /\ UNCHANGED <<stack, heap, collector, ctl, status>>
       ELSE /\ status' = "panicked"
            /\ done' = Event("run.abort", NoStmt, Len(stack))
            /\ evals' = <<>>
            /\ UNCHANGED <<stack, heap, collector, ctl, cur, nrun>>
    /\ UNCHANGED <<parserVars, funcVars>>

run_return ==
    /\ status = "running" /\ ctl = <<>> /\ cur = Result("Ok")
    /\ cur' = Idle
    /\ done' = Event("run.return", NoStmt, Len(stack))
    /\ evals' = <<>>
    /\ UNCHANGED <<stack, heap, collector, ctl, status, nrun>>
    /\ UNCHANGED <<parserVars, funcVars>>

\* Interpreter::do_collect, lines 66-68
do_collect ==
    /\ status = "running" /\ cur = Idle
    /\ collector' = [some |-> TRUE, buf |-> <<>>]
    /\ done' = Event("do_collect", NoStmt, Len(stack))
    /\ evals' = <<>>
    /\ UNCHANGED <<stack, heap, ctl, cur, status, nrun>>
    /\ UNCHANGED <<parserVars, funcVars>>

\* Stmt::Cmd, lines 85-94
StmtCmd ==
    /\ Executing("Cmd")
    /\ \E orc \in Oracles :
          IF collector.some
          THEN LET st == [State EXCEPT !.collector.buf = @ \o orc.out]
               IN /\ Bounded(st) /\ Commit(st)
                  /\ done' = Launched("run_cmd_capture", cur.stmt, Len(stack), orc.out)
          ELSE /\ Commit(State)
               /\ done' = Launched("run_cmd_pipe", cur.stmt, Len(stack), <<>>)
    /\ cur' = Result("Ok")
    /\ UNCHANGED <<ctl, status, nrun>>
    /\ UNCHANGED <<parserVars, funcVars>>

\* Stmt::Let, lines 95-105
StmtLet ==
    /\ Executing("Let")
    /\ \E orc \in Oracles :
          LET r == IF cur.stmt.init.some THEN Eval(cur.stmt.init.v, State, orc)
                   ELSE Ret(Nil, State)
          IN /\ Bounded(r.st)
             /\ IF r.st.ok
                THEN /\ Commit([r.st EXCEPT !.stack =
                                   StackDef(@, cur.stmt.name, Var(r.v, cur.stmt.is_exp))])
                     /\ cur' = Result("Ok")
                     /\ done' = Event("Let", cur.stmt, Len(stack))
                     /\ UNCHANGED <<ctl, status, nrun>>
                ELSE Crash(r.st, cur.stmt)
    /\ UNCHANGED <<parserVars, funcVars>>

\* Stmt::Expr, lines 106-108
StmtExpr ==
    /\ Executing("Expr")
    /\ \E orc \in Oracles :
          LET r == Eval(cur.stmt.expr, State, orc)
          IN /\ Bounded(r.st)
             /\ IF r.st.ok
                THEN /\ Commit(r.st)
                     /\ cur' = Result("Ok")
                     /\ done' = Event("Expr", cur.stmt, Len(stack))
                     /\ UNCHANGED <<ctl, status, nrun>>
                ELSE Crash(r.st, cur.stmt)
    /\ UNCHANGED <<parserVars, funcVars>>

\* Stmt::Block, line 110: push a frame, then the loop over the children
StmtBlock ==
    /\ Executing("Block")
    /\ Len(stack) < MaxStack
    /\ stack' = StackPush(stack)
    /\ ctl' = Append(ctl, [k |-> "Block", rest |-> cur.stmt.stmts, depth |-> Len(stack)])
    /\ cur' = Iterate
    /\ done' = Event("Block.enter", cur.stmt, Len(stack))
    /\ evals' = <<>>
    /\ UNCHANGED <<heap, collector, status, nrun>>
    /\ UNCHANGED <<parserVars, funcVars>>

\* Stmt::Block, lines 111-114: the next child, or the pop after the last
BlockNext ==
    /\ Iterating("Block")
    /\ evals' = <<>>
    /\ IF Top.rest = <<>>
       THEN /\ stack' = StackPop(stack)
            /\ ctl' = Pop(ctl)
            /\ cur' = Result("Ok")
            /\ done' = Event("Block.exit", NoStmt, Top.depth)
       ELSE /\ ctl' = [ctl EXCEPT ![Len(ctl)].rest = Tail(@)]
            /\ cur' = Exec(Head(Top.rest))
            /\ done' = Event("Block.child", Head(Top.rest), Top.depth)
            /\ UNCHANGED stack
    /\ UNCHANGED <<heap, collector, status, nrun>>
    /\ UNCHANGED <<parserVars, funcVars>>

\* Stmt::Block, line 112: `self.run_stmt(stmt)?` returns the Escape of a
\* child at once, and line 114 is not reached
BlockReturn ==
    /\ Returned("Block")
    /\ evals' = <<>>
    /\ IF cur.res = "Ok"
       THEN /\ cur' = Iterate
            /\ done' = Event("Block.next", NoStmt, Top.depth)
            /\ UNCHANGED ctl
       ELSE /\ ctl' = Pop(ctl)
            /\ done' = Event("Block.escape", NoStmt, Top.depth)
            /\ UNCHANGED cur
    /\ UNCHANGED <<stack, heap, collector, status, nrun>>
    /\ UNCHANGED <<parserVars, funcVars>>

\* Stmt::For, lines 116-125, 139-146, 160-167 and 181: evaluate iterated,
\* push the frame of the loop variables and define them.  The Ref taken by
\* RefCell::borrow lives as long as the loop runs.
StmtFor ==
    /\ Executing("For")
    /\ \E orc \in Oracles :
          LET r == Eval(cur.stmt.iterated, State, orc)
              it == r.v
              lvar == cur.stmt.lvar
              rvar == cur.stmt.rvar
              frame == [k |-> "For", src |-> it.t, lvar |-> lvar, rvar |-> rvar,
                        each_do |-> cur.stmt.each_do, depth |-> Len(stack),
                        iterated |-> cur.stmt.iterated, seen |-> <<>>,
                        entry |-> IF it.t = "Vec" THEN r.st.heap[it.ref].elems
                                  ELSE IF it.t = "Dict" THEN r.st.heap[it.ref].map
                                  ELSE <<>>]
          IN /\ Bounded(r.st)
             /\ IF ~r.st.ok THEN Crash(r.st, cur.stmt)
                ELSE IF it.t = "Range"
                THEN IF rvar.some THEN Crash(r.st, cur.stmt)
                     ELSE /\ Len(stack) < MaxStack
                          /\ Commit([r.st EXCEPT !.stack =
                                StackDef(StackPush(@), lvar, Var(Num(it.l), FALSE))])
                          /\ ctl' = Append(ctl, frame @@ [i |-> it.l, r |-> it.r, ref |-> 0])
                          /\ cur' = Iterate
                          /\ done' = Event("For.enter", cur.stmt, Len(stack))
                          /\ UNCHANGED <<status, nrun>>
                ELSE IF it.t \in {"Vec", "Dict"}
                THEN IF ~rvar.some THEN Crash(r.st, cur.stmt)
                     ELSE /\ Len(stack) < MaxStack
                          /\ Commit([r.st EXCEPT
                                !.stack = StackDef(StackDef(StackPush(@),
                                              lvar, Var(Nil, FALSE)),
                                              rvar.v, Var(Nil, FALSE)),
                                !.heap[it.ref].borrow = @ + 1])
                          /\ ctl' = Append(ctl,
                                IF it.t = "Vec"
                                THEN frame @@ [i |-> 0, ref |-> it.ref]
                                ELSE frame @@ [keys |-> KeysInOrder(r.st.heap[it.ref].map,
                                                                    orc.ord),
                                               ref |-> it.ref])
                          /\ cur' = Iterate
                          /\ done' = Event("For.enter", cur.stmt, Len(stack))
                          /\ UNCHANGED <<status, nrun>>
                ELSE Crash(r.st, cur.stmt)
    /\ UNCHANGED <<parserVars, funcVars>>

\* the end of a For loop by exhaustion or by Break: the Ref is dropped and
\* lines 137, 158, 179 pop the frame
ForEnd(act) ==
    /\ stack' = StackPop(stack)
    /\ heap' = Release(heap, Top.ref)
    /\ ctl' = Pop(ctl)
    /\ cur' = Result("Ok")
    /\ done' = Event(act, NoStmt, Top.depth)

\* an iteration of a For loop starts: the loop variables are rebound through
\* get_mut (lines 127, 147-148, 168-169) and the body is run
ForBody(frame, l, r) ==
    /\ stack' = IF Top.rvar.some
                THEN StackAssign(StackAssign(stack, Top.lvar, l), Top.rvar.v, r)
                ELSE StackAssign(stack, Top.lvar, l)
    /\ ctl' = [ctl EXCEPT ![Len(ctl)] = [frame EXCEPT !.seen = Append(@, <<l, r>>)]]
    /\ cur' = Exec(Top.each_do)
    /\ done' = Event("For.body", Top.each_do, Top.depth)
    /\ UNCHANGED heap

\* Stmt::For, lines 126, 146, 167: the iterator gives the next item or ends
ForNext ==
    /\ Iterating("For")
    /\ evals' = <<>>
    /\ CASE Top.src = "Range" ->
              IF Top.i < Top.r
              THEN ForBody([Top EXCEPT !.i = @ + 1], Num(Top.i), Nil)
              ELSE ForEnd("For.exit")
         [] Top.src = "Vec" ->
              IF Top.i < Len(heap[Top.ref].elems)
              THEN ForBody([Top EXCEPT !.i = @ + 1], Num(Top.i),
                           heap[Top.ref].elems[Top.i + 1])
              ELSE ForEnd("For.exit")
         [] Top.src = "Dict" ->
              IF Top.keys # <<>>
              THEN ForBody([Top EXCEPT !.keys = Tail(@)], String(Head(Top.keys)),
                           heap[Top.ref].map[Head(Top.keys)])
              ELSE ForEnd("For.exit")
    /\ UNCHANGED <<collector, status, nrun>>
    /\ UNCHANGED <<parserVars, funcVars>>

\* Stmt::For, lines 130-134, 151-155, 172-176: the match on the result of
\* the body.  `res?` returns any other Escape at once, past the pop.
ForReturn ==
    /\ Returned("For")
    /\ evals' = <<>>
    /\ CASE cur.res \in {"Ok", "Continue"} ->
              /\ cur' = Iterate
              /\ done' = Event("For.continue", NoStmt, Top.depth)
              /\ UNCHANGED <<stack, heap, ctl>>
         [] cur.res = "Break" -> ForEnd("For.break")
         [] OTHER ->
              /\ heap' = Release(heap, Top.ref)
              /\ ctl' = Pop(ctl)
              /\ done' = Event("For.escape", NoStmt, Top.depth)
              /\ UNCHANGED <<stack, cur>>
    /\ UNCHANGED <<collector, status, nrun>>
    /\ UNCHANGED <<parserVars, funcVars>>

\* Stmt::While, line 184: the loop is entered
StmtWhile ==
    /\ Executing("While")
    /\ ctl' = Append(ctl, [k |-> "While", cond |-> cur.stmt.cond,
                           then_do |-> cur.stmt.then_do, depth |-> Len(stack)])
    /\ cur' = Iterate
    /\ done' = Event("While.enter", cur.stmt, Len(stack))
    /\ evals' = <<>>
    /\ UNCHANGED <<stack, heap, collector, status, nrun>>
    /\ UNCHANGED <<parserVars, funcVars>>

\* Stmt::While, line 185: the condition is evaluated before every iteration
WhileCond ==
    /\ Iterating("While")
    /\ \E orc \in Oracles :
          LET r == Eval(Top.cond, State, orc)
          IN /\ Bounded(r.st)
             /\ IF ~r.st.ok THEN Crash(r.st, NoStmt)
                ELSE /\ Commit(r.st)
                     /\ IF is_truthy(r.v)
                        THEN /\ cur' = Exec(Top.then_do)
                             /\ done' = Event("While.body", Top.then_do, Top.depth)
                             /\ UNCHANGED ctl
                        ELSE /\ cur' = Result("Ok")
                             /\ ctl' = Pop(ctl)
                             /\ done' = Event("While.exit", NoStmt, Top.depth)
                     /\ UNCHANGED <<status, nrun>>
    /\ UNCHANGED <<parserVars, funcVars>>

\* WhileReturn without the arm `Err(Escape::Break) => break`: a Break leaves
\* the loop as any other Escape does
WhileReturnNoBreakArm ==
    /\ Returned("While")
    /\ evals' = <<>>
    /\ CASE cur.res \in {"Ok", "Continue"} ->
              /\ cur' = Iterate
              /\ done' = Event("While.continue", NoStmt, Top.depth)
              /\ UNCHANGED ctl
         [] OTHER ->
              /\ ctl' = Pop(ctl)
              /\ done' = Event("While.escape", NoStmt, Top.depth)
              /\ UNCHANGED cur
    /\ UNCHANGED <<stack, heap, collector, status, nrun>>
    /\ UNCHANGED <<parserVars, funcVars>>

\* WhileReturn with a Continue that runs the body again at once, without
\* the condition
WhileReturnSkipsCond ==
    /\ Returned("While")
    /\ evals' = <<>>
    /\ CASE cur.res = "Ok" ->
              /\ cur' = Iterate
              /\ done' = Event("While.continue", NoStmt, Top.depth)
              /\ UNCHANGED ctl
         [] cur.res = "Continue" ->
              /\ cur' = Exec(Top.then_do)
              /\ done' = Event("While.body", Top.then_do, Top.depth)
              /\ UNCHANGED ctl
         [] cur.res = "Break" ->
              /\ cur' = Result("Ok")
              /\ ctl' = Pop(ctl)
              /\ done' = Event("While.break", NoStmt, Top.depth)
         [] OTHER ->
              /\ ctl' = Pop(ctl)
              /\ done' = Event("While.escape", NoStmt, Top.depth)
              /\ UNCHANGED cur
    /\ UNCHANGED <<stack, heap, collector, status, nrun>>
    /\ UNCHANGED <<parserVars, funcVars>>

\* Stmt::While, lines 187-191: the match on the result of the body
WhileReturn ==
    /\ Returned("While")
    /\ evals' = <<>>
    /\ CASE cur.res \in {"Ok", "Continue"} ->
              /\ cur' = Iterate
              /\ done' = Event("While.continue", NoStmt, Top.depth)
              /\ UNCHANGED ctl
         [] cur.res = "Break" ->
              /\ cur' = Result("Ok")
              /\ ctl' = Pop(ctl)
              /\ done' = Event("While.break", NoStmt, Top.depth)
         [] OTHER ->
              /\ ctl' = Pop(ctl)
              /\ done' = Event("While.escape", NoStmt, Top.depth)
              /\ UNCHANGED cur
    /\ UNCHANGED <<stack, heap, collector, status, nrun>>
    /\ UNCHANGED <<parserVars, funcVars>>

\* Stmt::If, lines 194-200: the branch runs as part of the If and its result
\* is the result of the If
StmtIf ==
    /\ Executing("If")
    /\ \E orc \in Oracles :
          LET r == Eval(cur.stmt.cond, State, orc)
          IN /\ Bounded(r.st)
             /\ IF ~r.st.ok THEN Crash(r.st, cur.stmt)
                ELSE /\ Commit(r.st)
                     /\ cur' = IF is_truthy(r.v) THEN Exec(cur.stmt.then_do)
                               ELSE IF cur.stmt.else_do.some THEN Exec(cur.stmt.else_do.v)
                               ELSE Result("Ok")
                     /\ done' = Event("If", cur.stmt, Len(stack))
                     /\ UNCHANGED <<ctl, status, nrun>>
    /\ UNCHANGED <<parserVars, funcVars>>

\* Stmt::Continue, line 202
StmtContinue ==
    /\ Executing("Continue")
    /\ cur' = Raised("Continue")
    /\ done' = Event("Continue", cur.stmt, Len(stack))
    /\ evals' = <<>>
    /\ UNCHANGED <<stack, heap, collector, ctl, status, nrun>>
    /\ UNCHANGED <<parserVars, funcVars>>

\* Stmt::Break, line 203
StmtBreak ==
    /\ Executing("Break")
    /\ cur' = Raised("Break")
    /\ done' = Event("Break", cur.stmt, Len(stack))
    /\ evals' = <<>>
    /\ UNCHANGED <<stack, heap, collector, ctl, status, nrun>>
    /\ UNCHANGED <<parserVars, funcVars>>

\* any other statement, line 205: todo!() panics
StmtOther ==
    /\ Executing("Other")
    /\ Crash([State EXCEPT !.ok = FALSE], cur.stmt)
    /\ UNCHANGED <<parserVars, funcVars>>

---------------------------------------------------------------------------
(* Interpreter::new, lines 50-58, init_native_funcs and import_os_env,     *)
(* lines 70-81: one frame that binds print and the variables of the        *)
(* process environment, and no collector.                                  *)

PrintName == <<"p", "r", "i", "n", "t">>

Environments == {<<[k |-> "HOME", v |-> <<"h">>]>>}

RECURSIVE ImportEnv(_, _)
ImportEnv(s, env) ==
    IF env = <<>> THEN s
    ELSE ImportEnv(StackDef(s, Head(env).k, Var(String(Head(env).v), FALSE)), Tail(env))

New(env) ==
    ImportEnv(StackDef(<<EmptyFrame>>, "print", Var(FuncNative(PrintName), FALSE)), env)

NoCmd == [c |-> "None"]
NoFunc == FuncNative(<<>>)

InitInterp ==
    /\ stack \in {New(env) : env \in Environments}
    /\ heap = <<>>
    /\ collector = [some |-> FALSE, buf |-> <<>>]
    /\ ctl = <<>>
    /\ cur = Idle
    /\ status = "running"
    /\ nrun = 0
    /\ evals = <<>>
    /\ done = Event("new", NoStmt, 0)

InitParser ==
    /\ toks = <<>>
    /\ pos = 0
    /\ tree = NoCmd

InitFunc ==
    /\ fa = NoFunc
    /\ fb = NoFunc
    /\ feq = FALSE

Steps ==
    \/ run_call
    \/ run_return
    \/ do_collect
    \/ StmtCmd
    \/ StmtLet
    \/ StmtExpr
    \/ StmtBlock
    \/ BlockNext
    \/ BlockReturn
    \/ StmtFor
    \/ ForNext
    \/ ForReturn
    \/ StmtWhile
    \/ WhileCond
    \/ WhileReturn
    \/ StmtIf
    \/ StmtContinue
    \/ StmtBreak
    \/ StmtOther

---------------------------------------------------------------------------
(* The statements of the programs that exercise control flow: blocks, the  *)
(* loops over a Range, a Vec and a Dict, While, If, Break and Continue,    *)
(* nested in each other.                                                   *)

K == <<"k">>
J == <<"j">>
True == Literal(Bool(TRUE))
False == Literal(Bool(FALSE))
N(n) == Literal(Num(n))
LetA == Let("a", Some(N(1)), FALSE)

Escapes == {Break, Continue}
CtlLeaf == Escapes \cup {LetA}

CtlSimple ==
    CtlLeaf
    \cup {Block(<<x>>) : x \in CtlLeaf}
    \cup {Block(<<LetA, x>>) : x \in Escapes}
    \cup {If(c, x, None) : c \in {True, False}, x \in Escapes}
    \cup {If(False, LetA, Some(x)) : x \in Escapes}
    \cup {Block(<<>>), Other}

Loops(body) ==
    {For("i", None, RangeE(N(0), N(2), FALSE), body),
     For("i", Some("v"), VecE(<<N(1), N(2)>>), body),
     For("i", Some("v"), DictE(<<[key |-> K, expr |-> N(1)],
                                [key |-> J, expr |-> N(2)]>>), body),
     While(True, body),
     While(Binary(Get("a"), "Less", N(2)),
           Block(<<ExprS(Set("a", Binary(Get("a"), "Sum", N(1)))), body>>))}

InnerLoops ==
    {For("i", None, RangeE(N(0), N(2), FALSE), x) : x \in Escapes \cup {Block(<<Break>>)}}
    \cup {While(True, x) : x \in Escapes \cup {Block(<<Break>>)}}

CtlBody ==
    CtlSimple
    \cup InnerLoops
    \cup {Block(<<l, x>>) : l \in InnerLoops, x \in Escapes}

\* loops over ranges, up to the limits of i32
RangeBounds == {<<0, 2>>, <<1, 1>>, <<-1, 1>>, <<I32Max - 1, I32Max>>,
                <<I32Min, I32Min + 1>>}
RangeLoops ==
    {For("i", None, RangeE(N(b[1]), N(b[2]), inclusive), body) :
        b \in RangeBounds, inclusive \in BOOLEAN, body \in {LetA, Continue}}

CtlStmts ==
    CtlSimple
    \cup UNION {Loops(b) : b \in CtlBody}
    \cup RangeLoops
    \cup {For("i", Some("v"), RangeE(N(0), N(2), FALSE), LetA),
          For("i", None, VecE(<<N(1)>>), LetA),
          For("i", None, N(1), LetA),
          CmdS(NoCmd)}

NextCtl == run(CtlStmts, MaxStmts) \/ Steps

Init == InitInterp /\ InitParser /\ InitFunc

Spec == Init /\ [][NextCtl]_vars

---------------------------------------------------------------------------
(* Claims about blocks, loops and escapes (checked under Spec)             *)

IsEscape(c) == c.op = "ret" /\ c.res \in {"Break", "Continue"}

\* C1: when the execution of a Block ends, by its last child succeeding or
\* by a child yielding an Escape, the stack has exactly as many frames as it
\* had when the Block was entered.
C1_BlockPopsOnEveryExit ==
    done.act \in {"Block.exit", "Block.escape"} => Len(stack) = done.depth

\* C2: a For loop pushes exactly one frame before its first iteration, every
\* iteration's body starts with that frame innermost, and when the loop ends
\* (by exhaustion, by Break, or by passing another Escape on) the stack has
\* the frames it had before the For statement.
C2_ForFrameBalanced ==
    /\ done.act \in {"For.enter", "For.body"} => Len(stack) = done.depth + 1
    /\ done.act \in {"For.exit", "For.break", "For.escape"} => Len(stack) = done.depth

\* C3: a Break or Continue raised inside a loop is passed on unchanged by
\* the Blocks between it and the innermost enclosing loop and is consumed by
\* that loop (Break ends the loop with success, Continue takes the next
\* iteration), so an Escape that reaches run was raised outside every loop;
\* run then aborts, and after the abort nothing is executed.
C3_EscapeStep ==
    /\ status = "panicked" => FALSE
    /\ IsEscape(cur) =>
          /\ cur.loops = NumLoops(ctl)
          /\ ctl = <<>> => cur.loops = 0 /\ status' = "panicked" /\ nrun' = nrun
          /\ (ctl # <<>> /\ Top.k = "Block") => cur' = cur /\ ctl' = Pop(ctl)
          /\ (ctl # <<>> /\ Top.k \in {"For", "While"} /\ cur.res = "Break") =>
                cur' = Result("Ok") /\ ctl' = Pop(ctl)
          /\ (ctl # <<>> /\ Top.k \in {"For", "While"} /\ cur.res = "Continue") =>
                cur' = Iterate /\ ctl' = ctl

C3_EscapesStayInLoops == [][C3_EscapeStep]_vars

\* a Break that came out of a nested Block was consumed by a top-level loop,
\* and run goes on
C3_Witness ==
    /\ done.act \in {"For.break", "While.break"}
    /\ ctl = <<>> /\ cur = Result("Ok") /\ status = "running"
    /\ Len(stack) > done.depth

\* a Range expression whose bounds are integer literals l <= r
PlainRange(e) ==
    /\ e.e = "Range" /\ e.l.e = "Literal" /\ e.r.e = "Literal"
    /\ IsInteger(e.l.value) /\ IsInteger(e.r.value)
    /\ e.l.value.n <= e.r.value.n

\* the values l, l+1, .. of a loop over the range of e
RangeValues(e) ==
    [k \in 1..(e.r.value.n - e.l.value.n + (IF e.inclusive THEN 1 ELSE 0)) |->
        Num(e.l.value.n + (k - 1))]

\* C11: a For over the Range of integers l <= r does not fail when the
\* Range is built, and when it ends by exhaustion its body has run with the
\* loop variable bound to l, l+1, .., r-1 in this order, and to r after
\* them when the Range is inclusive.
C11_Step ==
    /\ (Executing("For") /\ ~cur.stmt.rvar.some /\ PlainRange(cur.stmt.iterated)) =>
           status' = "running"
    /\ (Iterating("For") /\ PlainRange(Top.iterated) /\ done'.act = "For.exit") =>
           /\ Len(Top.seen) = Len(RangeValues(Top.iterated))
           /\ \A k \in 1..Len(Top.seen) :
                 Top.seen[k] = <<RangeValues(Top.iterated)[k], Nil>>

C11_RangeIterations == [][C11_Step]_vars

\* C12: a Cmd statement executed while the capture buffer is active calls
\* run_cmd_capture, not run_cmd_pipe, and appends to the buffer the output
\* that the command returned followed by one line break.
C12_Step ==
    (Executing("Cmd") /\ collector.some) =>
        /\ done'.act = "run_cmd_capture"
        /\ collector'.some
        /\ collector'.buf = collector.buf \o done'.out \o <<"\n">>

C12_CmdAppendsLine == [][C12_Step]_vars

\* conditions whose value the state before the step decides: a literal, a
\* bound variable, or the comparison of two of them that hold Nums
Operand(e) == e.e \in {"Literal", "Get"} /\ (e.e = "Get" => StackHas(stack, e.name))
OperandValue(e) == IF e.e = "Literal" THEN e.value ELSE StackGet(stack, e.name)
Decidable(c) ==
    \/ Operand(c)
    \/ /\ c.e = "Binary" /\ c.op = "Less" /\ Operand(c.lhs) /\ Operand(c.rhs)
       /\ OperandValue(c.lhs).t = "Num" /\ OperandValue(c.rhs).t = "Num"
CondHolds(c) ==
    IF c.e = "Binary"
    THEN \/ OperandValue(c.lhs).n < OperandValue(c.rhs).n
         \/ /\ OperandValue(c.lhs).n = OperandValue(c.rhs).n
            /\ ~OperandValue(c.lhs).half /\ OperandValue(c.rhs).half
    ELSE ~(OperandValue(c) = Nil \/ OperandValue(c) = Bool(FALSE))

\* C17: the body of a While starts only in the step that has evaluated the
\* condition, once, to a truthy value, and the loop ends with success when
\* the condition is not truthy; after the body the condition is evaluated
\* again when the body succeeded or yielded Continue, the loop ends with
\* success and without another evaluation when it yielded Break, and any
\* other Escape is handed to the enclosing statement.
C17_Step ==
    /\ (ctl # <<>> /\ Top.k = "While" /\ cur.op # "exec" /\ cur'.op = "exec") =>
          /\ cur.op = "next" /\ ctl' = ctl /\ cur' = Exec(Top.then_do)
          /\ evals' # <<>> /\ evals'[1] = Top.cond
          /\ Cardinality({k \in 1..Len(evals') : evals'[k] = Top.cond}) = 1
    /\ (Iterating("While") /\ Decidable(Top.cond)) =>
          /\ status' = "running"
          /\ evals'[1] = Top.cond
          /\ IF CondHolds(Top.cond) THEN cur' = Exec(Top.then_do) /\ ctl' = ctl
             ELSE cur' = Result("Ok") /\ ctl' = Pop(ctl)
    /\ Returned("While") =>
          /\ evals' = <<>>
          /\ cur.res \in {"Ok", "Continue"} => cur' = Iterate /\ ctl' = ctl
          /\ cur.res = "Break" => cur' = Result("Ok") /\ ctl' = Pop(ctl)
          /\ cur.res \notin {"Ok", "Continue", "Break"} => cur' = cur /\ ctl' = Pop(ctl)

C17_WhileCondition == [][C17_Step]_vars

\* while a < 2 { a = a + 1; continue }: after the Continue the condition
\* was evaluated again, found false, and the loop has ended
C17_Witness ==
    /\ done.act = "While.exit"
    /\ cur = Result("Ok")
    /\ evals # <<>> /\ evals[1] = Binary(Get("a"), "Less", N(2))
    /\ StackHas(stack, "a") /\ StackGet(stack, "a") = Num(2)
    /\ Len(stack) > done.depth

---------------------------------------------------------------------------
(* The command parser, src/src/parser/cmd.rs.  A token is its kind and its *)
(* lexeme.  Tokens of kind String and LeftBrace are handed to the          *)
(* expression parser, which is not part of the file; the streams of the    *)
(* model hold words, spaces, newlines and command operators.               *)

Token(kind, lexeme) == [kind |-> kind, lexeme |-> lexeme]
Word(c) == Token("Word", <<c>>)
SpaceTok == Token("Space", <<" ">>)
NewlineTok == Token("Newline", <<"\n">>)
OpTok(kind) == Token(kind, <<>>)

Atom(segments) == [c |-> "Atom", segments |-> segments]
Op(lhs, op, rhs) == [c |-> "Op", lhs |-> lhs, op |-> op, rhs |-> rhs]

NoBp == [some |-> FALSE, l |-> 0, r |-> 0]
Bp(l, r) == [some |-> TRUE, l |-> l, r |-> r]

\* binding_power with the pair of the pipe operators turned round
BindingPowerPipesRight(kind) ==
    CASE kind \in {"Great", "StarGreat", "AmperGreat"} -> Bp(7, 8)
      [] kind \in {"Less", "StarLess", "AmperLess"} -> Bp(7, 8)
      [] kind \in {"Pipe", "StarPipe", "AmperPipe"} -> Bp(6, 5)
      [] kind = "AmperAmper" -> Bp(3, 4)
      [] kind = "PipePipe" -> Bp(1, 2)
      [] OTHER -> NoBp

\* binding_power with the rows of && and || exchanged
BindingPowerOrTighter(kind) ==
    CASE kind \in {"Great", "StarGreat", "AmperGreat"} -> Bp(7, 8)
      [] kind \in {"Less", "StarLess", "AmperLess"} -> Bp(7, 8)
      [] kind \in {"Pipe", "StarPipe", "AmperPipe"} -> Bp(5, 6)
      [] kind = "AmperAmper" -> Bp(1, 2)
      [] kind = "PipePipe" -> Bp(3, 4)
      [] OTHER -> NoBp

\* binding_power, lines 105-119
binding_power(kind) ==
    CASE kind \in {"Great", "StarGreat", "AmperGreat"} -> Bp(7, 8)
      [] kind \in {"Less", "StarLess", "AmperLess"} -> Bp(7, 8)
      [] kind \in {"Pipe", "StarPipe", "AmperPipe"} -> Bp(5, 6)
      [] kind = "AmperAmper" -> Bp(3, 4)
      [] kind = "PipePipe" -> Bp(1, 2)
      [] OTHER -> NoBp

\* Token::is_cmd_op, lines 121-125
is_cmd_op(t) == binding_power(t.kind).some

\* the match of lines 79-96
CmdOpOf(kind) ==
    CASE kind = "PipePipe" -> "Or"
      [] kind = "AmperAmper" -> "And"
      [] kind = "Pipe" -> "OutPipe"
      [] kind = "StarPipe" -> "ErrPipe"
      [] kind = "AmperPipe" -> "AllPipe"
      [] kind = "Great" -> "OutWrite"
      [] kind = "StarGreat" -> "ErrWrite"
      [] kind = "AmperGreat" -> "AllWrite"
      [] kind = "Less" -> "OutRead"
      [] kind = "StarLess" -> "ErrRead"
      [] kind = "AmperLess" -> "AllRead"

\* self.lexer.peek() at position p (the number of tokens consumed)
HasTok(ts, p) == p < Len(ts)
Peek(ts, p) == ts[p + 1]

\* the inner loop of lines 14-46: the expressions of one word
RECURSIVE ParseExprs(_, _, _)
ParseExprs(ts, p, exprs) ==
    IF ~HasTok(ts, p) THEN [exprs |-> exprs, pos |-> p]
    ELSE IF is_cmd_op(Peek(ts, p)) \/ Peek(ts, p).kind \in {"Space", "Newline"}
    THEN [exprs |-> exprs, pos |-> p]
    ELSE ParseExprs(ts, p + 1, Append(exprs, Literal(String(Peek(ts, p).lexeme))))

\* an atom of one word: the space after the word is left in the stream
ParseSegmentsOneWord(ts, p, segments) ==
    LET w == ParseExprs(ts, p, <<>>)
    IN [segments |-> IF Len(w.exprs) > 0 THEN Append(segments, w.exprs)
                     ELSE segments,
        pos |-> w.pos]

\* the outer loop of lines 11-57: the words of an atom, separated by spaces
RECURSIVE ParseSegments(_, _, _)
ParseSegments(ts, p, segments) ==
    LET w == ParseExprs(ts, p, <<>>)
        segs == IF Len(w.exprs) > 0 THEN Append(segments, w.exprs) ELSE segments
    IN IF HasTok(ts, w.pos) /\ Peek(ts, w.pos).kind = "Space"
       THEN ParseSegments(ts, w.pos + 1, segs)
       ELSE [segments |-> segs, pos |-> w.pos]

RECURSIVE parse_cmd(_, _, _)
RECURSIVE ParseOps(_, _, _, _)

\* the loop of lines 62-99 with lhs parsed so far
ParseOps(ts, p, min_bp, lhs) ==
    IF ~(HasTok(ts, p) /\ is_cmd_op(Peek(ts, p))) THEN [cmd |-> lhs, pos |-> p]
    ELSE LET bp == binding_power(Peek(ts, p).kind)
         IN IF bp.l < min_bp THEN [cmd |-> lhs, pos |-> p]
            ELSE LET rhs == parse_cmd(ts, p + 1, bp.r)
                 IN ParseOps(ts, rhs.pos, min_bp,
                             Op(lhs, CmdOpOf(Peek(ts, p).kind), rhs.cmd))

\* Parser::parse_cmd, lines 7-102
parse_cmd(ts, p, min_bp) ==
    LET a == ParseSegments(ts, p, <<>>)
    IN ParseOps(ts, a.pos, min_bp, Atom(a.segments))

---------------------------------------------------------------------------
(* The parser as a state machine: the lexer holds a token stream and       *)
(* parse_cmd(0) is called once at its start.  The streams are the chains   *)
(* x0 op1 x1 .. opn xn of atoms and at most MaxOps command operators, with *)
(* or without spaces around the operators, and every stream of at most     *)
(* MaxToks tokens over a word, Space, Newline and one operator per tier.   *)

MaxOps == 3
MaxToks == 4

OpKinds == {"PipePipe", "AmperAmper", "Pipe", "StarPipe", "AmperPipe", "Great",
            "StarGreat", "AmperGreat", "Less", "StarLess", "AmperLess"}

AtomNames == <<"a", "b", "c", "f", "g", "h">>

\* the chain x0 op1 x1 .. : bare, with spaces around the operators, or with
\* atoms of two words
Styles == {"bare", "spaced", "args"}

ChainAtom(k, style) ==
    IF style = "args" THEN <<Word(AtomNames[k]), SpaceTok, Word("z")>>
    ELSE <<Word(AtomNames[k])>>

RECURSIVE Chain(_, _, _)
Chain(ops, style, k) ==
    IF k > Len(ops) THEN ChainAtom(k, style)
    ELSE ChainAtom(k, style)
         \o (IF style = "bare" THEN <<OpTok(ops[k])>>
             ELSE <<SpaceTok, OpTok(ops[k]), SpaceTok>>)
         \o Chain(ops, style, k + 1)

ChainStreams ==
    {Chain(ops, style, 1) :
        ops \in UNION {[1..n -> OpKinds] : n \in 0..MaxOps}, style \in Styles}

FreeTokens == {Word("a"), SpaceTok, NewlineTok, OpTok("PipePipe"),
               OpTok("AmperAmper"), OpTok("Pipe"), OpTok("Great")}

FreeStreams == UNION {[1..n -> FreeTokens] : n \in 0..MaxToks}

InitParse ==
    /\ InitInterp
    /\ InitFunc
    /\ toks \in ChainStreams \cup FreeStreams
    /\ pos = 0
    /\ tree = NoCmd

\* the statement parser calls parse_cmd(0)
ParseCmd ==
    /\ tree = NoCmd
    /\ LET r == parse_cmd(toks, pos, 0)
       IN tree' = r.cmd /\ pos' = r.pos
    /\ UNCHANGED <<toks, interpVars, funcVars>>

NextParse == ParseCmd

SpecParse == InitParse /\ [][NextParse]_vars

---------------------------------------------------------------------------
(* Claims about parse_cmd (checked under SpecParse)                        *)

Redirections == {"OutWrite", "ErrWrite", "AllWrite", "OutRead", "ErrRead", "AllRead"}
Pipes == {"OutPipe", "ErrPipe", "AllPipe"}

\* the precedence tier of a CmdOp: the higher binds tighter
Tier(op) ==
    CASE op \in Redirections -> 4
      [] op \in Pipes -> 3
      [] op = "And" -> 2
      [] op = "Or" -> 1

\* the CmdOp a token kind stands for: > < write and read the output, *> *<
\* the errors, &> &< both; | *| &| pipe them
OpOfToken(kind) ==
    CASE kind = "PipePipe" -> "Or"
      [] kind = "AmperAmper" -> "And"
      [] kind = "Pipe" -> "OutPipe"
      [] kind = "StarPipe" -> "ErrPipe"
      [] kind = "AmperPipe" -> "AllPipe"
      [] kind = "Great" -> "OutWrite"
      [] kind = "StarGreat" -> "ErrWrite"
      [] kind = "AmperGreat" -> "AllWrite"
      [] kind = "Less" -> "OutRead"
      [] kind = "StarLess" -> "ErrRead"
      [] kind = "AmperLess" -> "AllRead"

\* ts cut at the tokens whose kind is in seps
RECURSIVE Split(_, _)
Split(ts, seps) ==
    IF ts = <<>> THEN <<<<>>>>
    ELSE LET r == Split(Tail(ts), seps)
         IN IF Head(ts).kind \in seps THEN <<<<>>>> \o r
            ELSE <<<<Head(ts)>> \o r[1]>> \o Tail(r)

\* ts is a chain of atoms separated by command operators: one line, with a
\* word between any two operators and at both ends
IsChain(ts) ==
    /\ \A k \in 1..Len(ts) : ts[k].kind # "Newline"
    /\ \A k \in 1..Len(Split(ts, OpKinds)) :
          \E j \in 1..Len(Split(ts, OpKinds)[k]) : Split(ts, OpKinds)[k][j].kind = "Word"

ChainOps(ts) ==
    LET o == SelectSeq(ts, LAMBDA t : t.kind \in OpKinds)
    IN [k \in 1..Len(o) |-> OpOfToken(o[k].kind)]

\* the atom a sequence of words and spaces stands for: one segment for every
\* group of adjacent words
AtomOf(words) ==
    LET groups == SelectSeq(Split(words, {"Space"}), LAMBDA g : g # <<>>)
    IN Atom([k \in 1..Len(groups) |->
                [j \in 1..Len(groups[k]) |-> Literal(String(groups[k][j].lexeme))]])

ChainAtoms(ts) ==
    LET runs == Split(ts, OpKinds) IN [k \in 1..Len(runs) |-> AtomOf(runs[k])]

\* the atoms and operators of a Cmd from left to right
RECURSIVE Flatten(_)
Flatten(cmd) ==
    IF cmd.c = "Atom" THEN <<cmd>>
    ELSE Flatten(cmd.lhs) \o <<cmd.op>> \o Flatten(cmd.rhs)

Interleave(atoms, ops) ==
    [k \in 1..(Len(atoms) + Len(ops)) |->
        IF k % 2 = 1 THEN atoms[(k + 1) \div 2] ELSE ops[k \div 2]]

\* no Op of cmd has a looser operator at the root of one of its operands
RECURSIVE TighterBelow(_)
TighterBelow(cmd) ==
    cmd.c = "Op" =>
        /\ TighterBelow(cmd.lhs)
        /\ TighterBelow(cmd.rhs)
        /\ cmd.lhs.c = "Op" => Tier(cmd.lhs.op) >= Tier(cmd.op)
        /\ cmd.rhs.c = "Op" => Tier(cmd.rhs.op) >= Tier(cmd.op)

\* no Op of cmd has an operator of its own tier at the root of its right
\* operand
RECURSIVE LeftGrouped(_)
LeftGrouped(cmd) ==
    cmd.c = "Op" =>
        /\ LeftGrouped(cmd.lhs)
        /\ LeftGrouped(cmd.rhs)
        /\ cmd.rhs.c = "Op" => Tier(cmd.rhs.op) # Tier(cmd.op)

\* Op(..Op(Op(x0, op1, x1), op2, x2).., opn, xn)
RECURSIVE LeftNest(_, _)
LeftNest(atoms, ops) ==
    IF ops = <<>> THEN atoms[1]
    ELSE Op(LeftNest(SubSeq(atoms, 1, Len(atoms) - 1), SubSeq(ops, 1, Len(ops) - 1)),
            ops[Len(ops)], atoms[Len(atoms)])

A1(c) == Atom(<<<<Literal(String(<<c>>))>>>>)

Parsed == tree # NoCmd

\* C4: parse_cmd(0) of a chain of atoms and operators keeps the atoms and
\* operators in their order and never puts a looser operator below a tighter
\* one, on either side; `a | b && c > f` is (a | b) && (c > f), `a && b || c`
\* is (a && b) || c and `a || b && c` is a || (b && c).
C4_PrecedenceTiers ==
    (Parsed /\ IsChain(toks)) =>
        /\ pos = Len(toks)
        /\ Flatten(tree) = Interleave(ChainAtoms(toks), ChainOps(toks))
        /\ TighterBelow(tree)
        /\ toks = Chain(<<"Pipe", "AmperAmper", "Great">>, "spaced", 1) =>
              tree = Op(Op(A1("a"), "OutPipe", A1("b")), "And",
                        Op(A1("c"), "OutWrite", A1("f")))
        /\ toks = Chain(<<"AmperAmper", "PipePipe">>, "spaced", 1) =>
              tree = Op(Op(A1("a"), "And", A1("b")), "Or", A1("c"))
        /\ toks = Chain(<<"PipePipe", "AmperAmper">>, "spaced", 1) =>
              tree = Op(A1("a"), "Or", Op(A1("b"), "And", A1("c")))

C4_Witness ==
    /\ toks = <<Word("a"), SpaceTok, OpTok("Pipe"), SpaceTok, Word("b"), SpaceTok,
                OpTok("AmperAmper"), SpaceTok, Word("c"), SpaceTok, OpTok("Great"),
                SpaceTok, Word("f")>>
    /\ tree = Op(Op(A1("a"), "OutPipe", A1("b")), "And",
                 Op(A1("c"), "OutWrite", A1("f")))

\* C5: in parse_cmd(0) of a chain, operators of one tier group to the left:
\* no Op has an operator of its own tier at the root of its right operand, a
\* chain whose operators all belong to one tier parses to the left-nested
\* tree, and every Op carries the CmdOp of its token.
C5_LeftAssociative ==
    (Parsed /\ IsChain(toks)) =>
        /\ LeftGrouped(tree)
        /\ (\A j, k \in 1..Len(ChainOps(toks)) :
                Tier(ChainOps(toks)[j]) = Tier(ChainOps(toks)[k])) =>
              tree = LeftNest(ChainAtoms(toks), ChainOps(toks))
        /\ \A k \in 1..Len(ChainOps(toks)) : Flatten(tree)[2 * k] = ChainOps(toks)[k]

C5_Witness ==
    /\ toks = <<Word("a"), SpaceTok, OpTok("Great"), SpaceTok, Word("b"), SpaceTok,
                OpTok("StarLess"), SpaceTok, Word("c"), SpaceTok, OpTok("Great"),
                SpaceTok, Word("f")>>
    /\ tree = Op(Op(Op(A1("a"), "OutWrite", A1("b")), "ErrRead", A1("c")),
                 "OutWrite", A1("f"))


\* the right binding powers of the table and the 0 of the statement parser:
\* every min_bp parse_cmd is called with
MinBps == {0, 2, 4, 6, 8}

\* the position of the first Newline at or after p, or the end of the stream
FirstNewline(ts, p) ==
    LET nl == {k \in p..(Len(ts) - 1) : ts[k + 1].kind = "Newline"}
    IN IF nl = {} THEN Len(ts) ELSE CHOOSE k \in nl : \A o \in nl : k <= o

\* where parse_cmd(m) called at p may return: at the end of the stream, at a
\* Newline, or in front of an operator whose left binding power is below m
StopsAt(ts, q, m) ==
    \/ q = Len(ts)
    \/ Peek(ts, q).kind = "Newline"
    \/ is_cmd_op(Peek(ts, q)) /\ binding_power(Peek(ts, q).kind).l < m

---------------------------------------------------------------------------
(* The programs that exercise values: statement k of prog is drawn from    *)
(* DataProg(k).  The first statements bind v to a Vec, a String or a Num,  *)
(* bind a to the value of v by Let or by Set, and bind d to a Dict; then   *)
(* comes one indexed read or write, assignment or And/Or expression, and   *)
(* then reads through every name and statements of the other kinds.        *)

MaxData == 6

Half == Literal(NumH(0, TRUE))
Str(s) == Literal(String(s))
Minus(n) == Unary("Neg", N(n))
PrintCall == Call(Get("print"), <<N(1)>>)
PrintSeven == Call(Get("print"), <<N(7)>>)
PrintTwo == Call(Get("print"), <<N(1), N(7)>>)

Indexes == {N(0), N(1), N(2), Minus(1), Half, Str(K), Str(J), Literal(Nil)}
Stored == {N(7), Str(<<"x">>)}
Bases == {"v", "a", "d"}

Writes ==
    {Let("b", Some(SetField(Get(n), ix, x)), FALSE) :
        n \in Bases, ix \in Indexes, x \in Stored}
    \cup {ExprS(SetField(Get(n), ix, N(7))) : n \in Bases, ix \in Indexes}

Reads == {Let("b", Some(GetField(Get(n), ix)), FALSE) : n \in Bases, ix \in Indexes}

Lefts == {True, False, Literal(Nil), N(0), Get("a"), Get("b")}
Rights == {Set("a", N(5)), SetField(Get("v"), N(0), N(7)),
           SetField(Get("d"), Str(J), N(7)), PrintCall, CmdE(NoCmd)}

Logic == {ExprS(Binary(l, op, r)) : l \in Lefts, op \in {"And", "Or"}, r \in Rights}

\* calls of a User func with as many arguments as parameters, of the Native
\* print and of a Num
UserF == Literal(FuncUser(TRUE, <<"f">>, <<>>))
UserLambda == Literal(FuncUser(FALSE, <<>>, <<"x">>))
Calls ==
    {Let("b", Some(Call(UserF, <<>>)), FALSE), ExprS(Call(UserLambda, <<N(1)>>)),
     Let("b", Some(PrintCall), FALSE), ExprS(Call(N(1), <<>>))}

\* And/Or of two values of every kind, the result bound to b
Operands == {True, False, Literal(Nil), N(0), N(1), Str(<<>>), Str(K),
             Literal(Range(0, 1)), Get("v"), Get("d"), Get("print")}
LogicLets ==
    {Let("b", Some(Binary(l, op, r)), FALSE) :
        l \in Operands, op \in {"And", "Or"}, r \in Operands}

\* interpolations of up to two expressions between the fragments "", "a"
\* and "b"
Fragments == {<<>>, <<"a">>, <<"b">>}
OnePlusOne == Binary(N(1), "Sum", N(1))
Interps ==
    {Interp(<<s0>>, <<>>) : s0 \in Fragments}
    \cup {Interp(<<s0, s1>>, <<e1>>) :
             s0 \in Fragments, s1 \in Fragments,
             e1 \in {OnePlusOne, Str(K), Get("v"), Literal(Nil), N(0)}}
    \cup {Interp(<<s0, s1, s2>>, <<e1, e2>>) :
             s0 \in {<<>>, <<"a">>}, s1 \in Fragments, s2 \in {<<>>, <<"b">>},
             e1 \in {Str(K), Get("v")}, e2 \in {Str(K), N(0)}}
InterpLets == {Let("b", Some(e), FALSE) : e \in Interps}

\* If, While and Not on a value of every kind
LetB(n) == Let("b", Some(N(n)), FALSE)
Deciders ==
    {If(c, LetB(1), Some(LetB(2))) : c \in Operands}
    \cup {If(c, LetB(1), None) : c \in Operands}
    \cup {While(c, Break) : c \in Operands}
    \cup {Let("b", Some(Unary("Not", c)), FALSE) : c \in Operands}

\* loops over the Vec v and the Dict d whose body writes to the iterated
\* container through a name, writes to the other container, reads, or does
\* nothing
LoopBodies ==
    {ExprS(SetField(Get("a"), N(0), N(7))), ExprS(SetField(Get("v"), N(1), Get("b"))),
     ExprS(SetField(Get("d"), Str(K), N(7))), ExprS(SetField(Get("d"), Str(J), Get("b"))),
     Let("a", Some(GetField(Get("v"), Get("i"))), FALSE), Continue, Break}
ContainerLoops ==
    {For("i", Some("b"), Get(n), body) : n \in {"v", "a", "d"}, body \in LoopBodies}

DataOps ==
    Writes \cup Reads \cup Logic \cup Calls \cup LogicLets \cup InterpLets
    \cup Deciders \cup ContainerLoops
    \cup {ExprS(Set("a", N(5))), ExprS(Set("v", Binary(Get("v"), "Sum", Get("v"))))}

LateReads ==
    {Let("b", Some(GetField(Get(n), ix)), FALSE) :
        n \in Bases, ix \in {N(0), Str(K), Str(J)}}

DataCtl ==
    {CmdS(NoCmd), Other, Break, ExprS(PrintSeven), ExprS(PrintTwo),
     Block(<<ExprS(SetField(Get("a"), N(1), N(7)))>>),
     If(Get("b"), ExprS(PrintCall), Some(Continue)),
     For("i", Some("b"), Get("v"), ExprS(SetField(Get("a"), N(0), Get("i")))),
     ExprS(SetField(Get("a"), N(0), N(7))), ExprS(SetField(Get("d"), Str(J), N(7))),
     For("i", Some("b"), Get("d"), Block(<<Continue>>)),
     For("i", None, RangeE(N(0), N(1), TRUE), Break),
     While(Binary(GetField(Get("v"), N(0)), "Less", N(2)),
           ExprS(SetField(Get("a"), N(0), N(2)))),
     While(True, If(Get("b"), Break, Some(Continue)))}

DataProg(k) ==
    CASE k = 1 -> {Let("v", Some(VecE(<<N(1), N(2)>>)), FALSE),
                   Let("v", Some(Str(<<"s">>)), FALSE),
                   Let("v", Some(N(1)), FALSE),
                   Let("v", Some(VecE(<<>>)), FALSE)}
      [] k = 2 -> {Let("a", Some(Get("v")), FALSE), Let("a", None, FALSE)}
      [] k = 3 -> {ExprS(Set("a", Get("v"))), Let("b", Some(False), FALSE)}
      [] k = 4 -> {Let("d", Some(DictE(<<[key |-> K, expr |-> N(1)]>>)), FALSE),
                   Let("d", Some(DictE(<<>>)), FALSE)}
      [] k = 5 -> DataOps
      [] OTHER -> LateReads \cup DataCtl

NextData == run(DataProg(nrun + 1), MaxData) \/ Steps

SpecData == Init /\ [][NextData]_vars

---------------------------------------------------------------------------
(* Claims about expressions (checked under SpecData).  A step is described *)
(* by the statement run_stmt is entered with, cur.stmt, the state before   *)
(* it and the state after it.                                              *)

\* the expression that an Expr statement or a Let with an initialiser
\* evaluates
HasRoot(stmt) == stmt.s = "Expr" \/ (stmt.s = "Let" /\ stmt.init.some)
RootOf(stmt) == IF stmt.s = "Expr" THEN stmt.expr ELSE stmt.init.v
AtRoot(kind) == cur.op = "exec" /\ HasRoot(cur.stmt) /\ RootOf(cur.stmt).e = kind

\* operands whose evaluation changes nothing: a literal, a negated literal,
\* the name of a bound variable
IsPlain(e) ==
    \/ e.e = "Literal"
    \/ e.e = "Unary" /\ e.op = "Neg" /\ e.expr.e = "Literal" /\ e.expr.value.t = "Num"
    \/ e.e = "Get" /\ StackHas(stack, e.name)
PlainValue(e) ==
    CASE e.e = "Literal" -> e.value
      [] e.e = "Unary" -> NumH(IF e.expr.value.half THEN -e.expr.value.n - 1
                               ELSE -e.expr.value.n, e.expr.value.half)
      [] e.e = "Get" -> StackGet(stack, e.name)

Occurrences(e, log) == {k \in 1..Len(log) : log[k] = e}

StateAfter == [stack |-> stack', heap |-> heap', collector |-> collector',
               evals |-> <<>>, ok |-> TRUE]

\* the names that a frame of s binds to value
BoundTo(s, value) == {m \in Names : StackHas(s, m) /\ StackGet(s, m) = value}

\* C6: when the left operand of And is Nil or Bool(false), or the left
\* operand of Or is any other value, the right operand is not evaluated and
\* the statement changes neither the stack, nor a container, nor the capture
\* buffer; otherwise the right operand is evaluated exactly once, after the
\* left operand.
C6_Step ==
    (/\ AtRoot("Binary") /\ cur.stmt.s = "Expr"
     /\ cur.stmt.expr.op \in {"And", "Or"}
     /\ IsPlain(cur.stmt.expr.lhs)) =>
        LET e == cur.stmt.expr
            lhs == PlainValue(e.lhs)
            falsy == lhs = Nil \/ lhs = Bool(FALSE)
            skipped == IF e.op = "And" THEN falsy ELSE ~falsy
            at == Occurrences(e.rhs, evals')
        IN IF skipped
           THEN /\ at = {}
                /\ status' = "running"
                /\ stack' = stack /\ heap' = heap /\ collector' = collector
           ELSE /\ Cardinality(at) = 1
                /\ \E i \in Occurrences(e.lhs, evals') : \A j \in at : i < j

C6_ShortCircuit == [][C6_Step]_vars

\* False && (a = 5) has left a as it was: eval was entered with the And
\* and with its left operand only
C6_Witness ==
    /\ done.act = "Expr"
    /\ done.stmt = ExprS(Binary(False, "And", Set("a", N(5))))
    /\ evals = <<Binary(False, "And", Set("a", N(5))), False>>
    /\ StackGet(stack, "a") = VecRef(1)

\* C7: binding a name to the Get of a name that holds a Vec gives both names
\* the same Vec; a SetField of x at an index within the Vec through one of
\* the names succeeds, returns x, makes the GetField at that index return x
\* through every name of the Vec and changes no other element and not the
\* length; an assignment through one name does not change the String or Num
\* that another name holds.
C7_Step ==
    /\ (/\ cur.op = "exec" /\ cur.stmt.s = "Let" /\ cur.stmt.init.some
        /\ cur.stmt.init.v.e = "Get" /\ IsPlain(cur.stmt.init.v)) =>
           /\ status' = "running" /\ heap' = heap
           /\ StackGet(stack', cur.stmt.name) = StackGet(stack, cur.stmt.init.v.name)
    /\ (/\ AtRoot("Set") /\ cur.stmt.s = "Expr" /\ StackHas(stack, cur.stmt.expr.name)
        /\ cur.stmt.expr.expr.e = "Get" /\ IsPlain(cur.stmt.expr.expr)) =>
           /\ status' = "running" /\ heap' = heap
           /\ StackGet(stack', cur.stmt.expr.name)
                 = StackGet(stack, cur.stmt.expr.expr.name)
    /\ (/\ AtRoot("SetField")
        /\ IsPlain(RootOf(cur.stmt).base) /\ PlainValue(RootOf(cur.stmt).base).t = "Vec"
        /\ IsPlain(RootOf(cur.stmt).index) /\ IsPlain(RootOf(cur.stmt).expr)) =>
           LET e == RootOf(cur.stmt)
               vec == PlainValue(e.base)
               i == PlainValue(e.index)
               x == PlainValue(e.expr)
               elems == heap[vec.ref].elems
           IN (i.t = "Num" /\ ~i.half /\ 0 <= i.n /\ i.n < Len(elems)
                  /\ heap[vec.ref].borrow = 0) =>
                 /\ status' = "running"
                 /\ cur.stmt.s = "Let" => StackGet(stack', cur.stmt.name) = x
                 /\ heap'[vec.ref].elems = [elems EXCEPT ![i.n + 1] = x]
                 /\ \A r \in 1..Len(heap) : r # vec.ref => heap'[r] = heap[r]
                 /\ \A m \in BoundTo(stack, vec) :
                       (cur.stmt.s = "Let" => m # cur.stmt.name) =>
                          m \in BoundTo(stack', vec)
                 /\ \A m \in BoundTo(stack', vec), orc \in Oracles :
                       LET got == Eval(GetField(Get(m), e.index), StateAfter, orc)
                       IN got.st.ok /\ got.v = x
    /\ (cur.op = "exec" /\ HasRoot(cur.stmt) /\ RootOf(cur.stmt).e \in {"Set", "SetField"}) =>
           LET e == RootOf(cur.stmt)
               through == {IF e.e = "Set" THEN e.name
                           ELSE IF e.base.e = "Get" THEN e.base.name ELSE "print"}
                          \cup (IF cur.stmt.s = "Let" THEN {cur.stmt.name} ELSE {})
           IN \A m \in Names \ through :
                 (StackHas(stack, m) /\ StackGet(stack, m).t \in {"String", "Num"}) =>
                    StackHas(stack', m) /\ StackGet(stack', m) = StackGet(stack, m)

C8_Step ==
    (/\ cur.op = "exec" /\ HasRoot(cur.stmt)
     /\ RootOf(cur.stmt).e \in {"GetField", "SetField"}
     /\ IsPlain(RootOf(cur.stmt).base) /\ PlainValue(RootOf(cur.stmt).base).t = "Vec"
     /\ IsPlain(RootOf(cur.stmt).index)
     /\ RootOf(cur.stmt).e = "SetField" => IsPlain(RootOf(cur.stmt).expr)) =>
        LET e == RootOf(cur.stmt)
            i == PlainValue(e.index)
            len == Len(heap[PlainValue(e.base).ref].elems)
            integer == i.t = "Num" /\ ~i.half
        IN (~integer \/ i.n < 0 \/ i.n >= len) =>
              /\ status' = "panicked"
              /\ heap' = heap /\ stack' = stack

C8_VecIndexChecked == [][C8_Step]_vars

\* C9: a GetField on a Dict with a key that is not present fails and inserts
\* nothing; a SetField of x at key k succeeds, makes the GetField at k return
\* x whether k was present or not, and leaves the values of the other keys
\* as they were; an index that is not a String fails.
C9_Step ==
    /\ (/\ AtRoot("GetField")
        /\ IsPlain(RootOf(cur.stmt).base) /\ PlainValue(RootOf(cur.stmt).base).t = "Dict"
        /\ IsPlain(RootOf(cur.stmt).index)) =>
           LET e == RootOf(cur.stmt)
               k == PlainValue(e.index)
               map == heap[PlainValue(e.base).ref].map
           IN /\ heap' = heap
              /\ IF k.t = "String" /\ k.s \in DOMAIN map
                 THEN /\ status' = "running"
                      /\ cur.stmt.s = "Let" => StackGet(stack', cur.stmt.name) = map[k.s]
                 ELSE status' = "panicked" /\ stack' = stack
    /\ (/\ AtRoot("SetField")
        /\ IsPlain(RootOf(cur.stmt).base) /\ PlainValue(RootOf(cur.stmt).base).t = "Dict"
        /\ IsPlain(RootOf(cur.stmt).index) /\ IsPlain(RootOf(cur.stmt).expr)) =>
           LET e == RootOf(cur.stmt)
               dict == PlainValue(e.base)
               k == PlainValue(e.index)
               x == PlainValue(e.expr)
               map == heap[dict.ref].map
           IN IF k.t # "String"
              THEN status' = "panicked" /\ heap' = heap /\ stack' = stack
              ELSE heap[dict.ref].borrow = 0 =>
                 /\ status' = "running"
                 /\ cur.stmt.s = "Let" => StackGet(stack', cur.stmt.name) = x
                 /\ DOMAIN heap'[dict.ref].map = DOMAIN map \cup {k.s}
                 /\ \A j \in DOMAIN map \ {k.s} : heap'[dict.ref].map[j] = map[j]
                 /\ \A r \in 1..Len(heap) : r # dict.ref => heap'[r] = heap[r]
                 /\ \A orc \in Oracles :
                       LET got == Eval(GetField(Literal(dict), e.index), StateAfter, orc)
                       IN got.st.ok /\ got.v = x

---------------------------------------------------------------------------
(* Func equality: fa == fb for two Funcs drawn from Funcs.  The body of a  *)
(* User func and the fn of a Native func take no part in eq and are left   *)
(* out of the model's Funcs.                                               *)

FuncNames == {<<"f">>, <<"g">>, PrintName}
Params == {<<>>, <<"x">>}

Funcs ==
    {FuncUser(FALSE, <<>>, ps) : ps \in Params}
    \cup {FuncUser(TRUE, n, ps) : n \in FuncNames, ps \in Params}
    \cup {FuncNative(n) : n \in FuncNames}

InitEq ==
    /\ InitInterp /\ InitParser
    /\ fa \in Funcs /\ fb \in Funcs
    /\ feq = FALSE

\* impl PartialEq for Func: fa == fb
eq ==
    /\ done.act = "new"
    /\ feq' = FuncEq(fa, fb)
    /\ done' = Event("eq", NoStmt, Len(stack))
    /\ UNCHANGED <<stack, heap, collector, ctl, cur, status, nrun, evals>>
    /\ UNCHANGED <<parserVars, fa, fb>>

NextEq == eq

SpecEq == InitEq /\ [][NextEq]_vars

\* C10: two Funcs are equal exactly when both are User funcs that have a
\* name and the names are equal; anonymous User funcs and Native funcs are
\* equal to nothing, not even to a copy of themselves.
C10_FuncEquality ==
    done.act = "eq" =>
       feq = (/\ fa.k = "User" /\ fb.k = "User"
              /\ fa.named /\ fb.named
              /\ fa.name = fb.name)

---------------------------------------------------------------------------
(* Claims about calls (checked under SpecData)                             *)

\* C13: a Call whose callee is a User func, with as many arguments as the
\* func has parameters, does not fail and leaves the stack with the frames
\* it had before the call.
C13_Step ==
    (/\ AtRoot("Call")
     /\ IsPlain(RootOf(cur.stmt).func)
     /\ PlainValue(RootOf(cur.stmt).func).t = "Func"
     /\ PlainValue(RootOf(cur.stmt).func).k = "User"
     /\ Len(RootOf(cur.stmt).args) = Len(PlainValue(RootOf(cur.stmt).func).params)
     /\ \A k \in 1..Len(RootOf(cur.stmt).args) : IsPlain(RootOf(cur.stmt).args[k])) =>
        /\ status' = "running"
        /\ Len(stack') = Len(stack)

C13_UserFuncCallable == [][C13_Step]_vars

\* C14: a && b is the value of a when a is Nil or Bool(false) and the value
\* of b otherwise; a || b is the value of b when a is Nil or Bool(false) and
\* the value of a otherwise.
C14_Step ==
    (/\ AtRoot("Binary") /\ cur.stmt.s = "Let"
     /\ RootOf(cur.stmt).op \in {"And", "Or"}
     /\ IsPlain(RootOf(cur.stmt).lhs) /\ IsPlain(RootOf(cur.stmt).rhs)) =>
        LET e == RootOf(cur.stmt)
            a == PlainValue(e.lhs)
            b == PlainValue(e.rhs)
            falsy == a = Nil \/ a = Bool(FALSE)
        IN /\ status' = "running"
           /\ StackGet(stack', cur.stmt.name) =
                 IF e.op = "And" THEN (IF falsy THEN a ELSE b)
                 ELSE (IF falsy THEN b ELSE a)

C14_AndOrYieldOperand == [][C14_Step]_vars

\* let b = 0 || v: b is the Num 0, not a Bool and not the Vec
C14_Witness ==
    /\ done.act = "Let"
    /\ done.stmt = Let("b", Some(Binary(N(0), "Or", Get("v"))), FALSE)
    /\ StackGet(stack, "v").t = "Vec"
    /\ StackGet(stack, "b") = Num(0)

\* the un-quoted display of a value: a String as it is, any other value as
\* Display writes it
Shown(v) ==
    IF v.t = "String" THEN v.s
    ELSE to_string(v, heap, <<>>, Len(heap) + 1).s

\* s0 + d1 + s1 + .. + dn + sn
RECURSIVE Interleaved(_, _)
Interleaved(strings, shown) ==
    IF shown = <<>> THEN Head(strings)
    ELSE Head(strings) \o Head(shown) \o Interleaved(Tail(strings), Tail(shown))

\* C15: an interpolation of n expressions between n+1 fragments evaluates
\* the expressions once each, from left to right, and yields the fragments,
\* empty ones included, and the un-quoted displays of the results in the
\* order in which they are written; "a{1+1}b" is "a2b".
C15_Step ==
    /\ (/\ AtRoot("Interp") /\ cur.stmt.s = "Let"
        /\ Len(RootOf(cur.stmt).strings) = Len(RootOf(cur.stmt).exprs) + 1
        /\ \A k \in 1..Len(RootOf(cur.stmt).exprs) :
              /\ RootOf(cur.stmt).exprs[k].e \in {"Literal", "Get"}
              /\ IsPlain(RootOf(cur.stmt).exprs[k])) =>
           LET e == RootOf(cur.stmt)
               shown == [k \in 1..Len(e.exprs) |-> Shown(PlainValue(e.exprs[k]))]
           IN /\ status' = "running"
              /\ StackGet(stack', cur.stmt.name) = String(Interleaved(e.strings, shown))
              /\ evals' = <<e>> \o e.exprs
    /\ (AtRoot("Interp") /\ cur.stmt.s = "Let"
        /\ RootOf(cur.stmt) = Interp(<<<<"a">>, <<"b">>>>, <<OnePlusOne>>)) =>
           /\ status' = "running"
           /\ StackGet(stack', cur.stmt.name) = String(<<"a", "2", "b">>)
           /\ Cardinality(Occurrences(OnePlusOne, evals')) = 1

C15_Interpolation == [][C15_Step]_vars

\* let b = "{v}a{"k"}": b is "[1, 2]ak", with the empty fragments at both
\* ends
C15_Witness ==
    /\ done.act = "Let"
    /\ done.stmt = Let("b", Some(Interp(<<<<>>, <<"a">>, <<>>>>, <<Get("v"), Str(K)>>)),
                       FALSE)
    /\ StackGet(stack, "b") = String(<<"[", "1", ",", " ", "2", "]", "a", "k">>)

\* every value but Nil and Bool(false)
Truthy(v) == ~(v = Nil \/ v = Bool(FALSE))

\* C16: is_truthy is false for Nil and Bool(false) and true for every other
\* value; If takes its then-branch, While runs its body, Not yields false,
\* And evaluates its right operand and Or does not, exactly when the value
\* they decide on is such a truthy value.
C16_Step ==
    /\ \A m \in Names :
          StackHas(stack, m) => is_truthy(StackGet(stack, m)) = Truthy(StackGet(stack, m))
    /\ (Executing("If") /\ IsPlain(cur.stmt.cond)) =>
          /\ status' = "running"
          /\ cur' = IF Truthy(PlainValue(cur.stmt.cond)) THEN Exec(cur.stmt.then_do)
                    ELSE IF cur.stmt.else_do.some THEN Exec(cur.stmt.else_do.v)
                    ELSE Result("Ok")
    /\ (Iterating("While") /\ IsPlain(Top.cond)) =>
          /\ status' = "running"
          /\ IF Truthy(PlainValue(Top.cond))
             THEN cur' = Exec(Top.then_do) /\ ctl' = ctl
             ELSE cur' = Result("Ok") /\ ctl' = Pop(ctl)
    /\ (/\ AtRoot("Unary") /\ cur.stmt.s = "Let" /\ RootOf(cur.stmt).op = "Not"
        /\ IsPlain(RootOf(cur.stmt).expr)) =>
          /\ status' = "running"
          /\ StackGet(stack', cur.stmt.name) =
                Bool(~Truthy(PlainValue(RootOf(cur.stmt).expr)))
    /\ (/\ AtRoot("Binary") /\ RootOf(cur.stmt).op \in {"And", "Or"}
        /\ RootOf(cur.stmt).lhs.e \in {"Literal", "Get"} /\ IsPlain(RootOf(cur.stmt).lhs)
        /\ RootOf(cur.stmt).rhs.e \in {"Literal", "Get"} /\ IsPlain(RootOf(cur.stmt).rhs)) =>
          LET e == RootOf(cur.stmt)
              evaluated == evals' = <<e, e.lhs, e.rhs>>
              skipped == evals' = <<e, e.lhs>>
          IN IF Truthy(PlainValue(e.lhs)) = (e.op = "And") THEN evaluated ELSE skipped

C16_Truthiness == [][C16_Step]_vars

\* if "" { let b = 1 } else { let b = 2 }: the empty String is truthy, the
\* then-branch is about to run
C16_Witness ==
    /\ done.act = "If"
    /\ done.stmt = If(Str(<<>>), LetB(1), Some(LetB(2)))
    /\ cur = Exec(LetB(1))

---------------------------------------------------------------------------
(* Claims about loops over containers (checked under SpecData)             *)

\* the For loops that are iterating over the cell ref
LoopsOver(ref) ==
    {k \in 1..Len(ctl) : ctl[k].k = "For" /\ ctl[k].src \in {"Vec", "Dict"}
                           /\ ctl[k].ref = ref}

Pairs(seen) == {seen[k] : k \in 1..Len(seen)}

\* C18: a cell is borrowed exactly while For loops iterate over it; a
\* SetField to a container that a running For loop iterates over, through
\* any name, aborts the run and changes no container, and one to a container
\* that no loop iterates over is not refused; a loop that ends by exhaustion
\* has visited the pairs that the container held when the loop was entered,
\* each once, those of a Vec in the order of the indexes, and the container
\* still holds them.
C18_Step ==
    /\ \A ref \in 1..Len(heap) : heap[ref].borrow = Cardinality(LoopsOver(ref))
    /\ (/\ AtRoot("SetField")
        /\ IsPlain(RootOf(cur.stmt).base)
        /\ PlainValue(RootOf(cur.stmt).base).t \in {"Vec", "Dict"}
        /\ IsPlain(RootOf(cur.stmt).index) /\ IsPlain(RootOf(cur.stmt).expr)) =>
          LET e == RootOf(cur.stmt)
              base == PlainValue(e.base)
              i == PlainValue(e.index)
              valid == IF base.t = "Dict" THEN i.t = "String"
                       ELSE /\ i.t = "Num" /\ ~i.half
                            /\ 0 <= i.n /\ i.n < Len(heap[base.ref].elems)
          IN IF LoopsOver(base.ref) # {}
             THEN status' = "panicked" /\ heap' = heap
             ELSE valid => status' = "running"
    /\ (Iterating("For") /\ Top.src = "Vec" /\ done'.act = "For.exit") =>
          /\ heap[Top.ref].elems = Top.entry
          /\ Top.seen = [k \in 1..Len(Top.entry) |-> <<Num(k - 1), Top.entry[k]>>]
    /\ (Iterating("For") /\ Top.src = "Dict" /\ done'.act = "For.exit") =>
          /\ heap[Top.ref].map = Top.entry
          /\ Pairs(Top.seen) = {<<String(k), Top.entry[k]>> : k \in DOMAIN Top.entry}
          /\ Len(Top.seen) = Cardinality(DOMAIN Top.entry)

C18_BorrowedWhileIterated == [][C18_Step]_vars

\* for i, b in v { a[0] = 7 } with a and v the same Vec: the run has
\* aborted in the first iteration and the Vec is as it was
C18_Witness ==
    /\ status = "panicked"
    /\ done.stmt = ExprS(SetField(Get("a"), N(0), N(7)))
    /\ ctl # <<>> /\ Top.k = "For" /\ Top.src = "Vec"
    /\ Top.iterated = Get("v")
    /\ StackGet(stack, "a") = VecRef(Top.ref)
    /\ Top.entry = <<Num(1), Num(2)>>
    /\ heap[Top.ref].elems = Top.entry
---------------------------------------------------------------------------
(* The collector (checked under SpecData): do_collect is called between    *)
(* runs, a run has Cmd statements and calls of print.                      *)

IsPrefix(s, t) == Len(s) <= Len(t) /\ SubSeq(t, 1, Len(s)) = s

\* the step entered eval with a call
Called == \E k \in 1..Len(evals') : evals'[k].e = "Call"

\* C20: no step of a run switches the collector between absent and present,
\* and the buffer before a step is a prefix of the buffer after it; a step
\* that extended the buffer ran a Cmd statement or a call; print(1, 7)
\* appends "1 7" and a line break; do_collect, which is not a step of a run,
\* is the one step that replaces the buffer, with an empty one.
C20_Step ==
    /\ done'.act = "do_collect" =>
          cur = Idle /\ collector' = [some |-> TRUE, buf |-> <<>>]
    /\ done'.act # "do_collect" =>
          /\ collector'.some = collector.some
          /\ IsPrefix(collector.buf, collector'.buf)
          /\ ~collector.some => collector'.buf = <<>>
          /\ collector'.buf # collector.buf =>
                cur.op = "exec" /\ (cur.stmt.s = "Cmd" \/ Called)
    /\ (cur = Exec(ExprS(PrintTwo)) /\ collector.some /\ status' = "running") =>
          collector'.buf = collector.buf \o <<"1", " ", "7", "\n">>
    /\ (cur = Exec(ExprS(PrintSeven)) /\ collector.some /\ status' = "running") =>
          collector'.buf = collector.buf \o <<"7", "\n">>
C20_CollectorAppendOnly == [][C20_Step]_vars

\* print(7) after print(1), both captured
C20_Witness ==
    /\ done.act = "Expr" /\ done.stmt = ExprS(PrintSeven)
    /\ collector = [some |-> TRUE, buf |-> <<"1", "\n", "7", "\n">>]

====
